---------------------------- MODULE Spec2Model ----------------------------
(***************************************************************************)
(* The heuristic balanced-partition engine of Group-Balancer:              *)
(*   modules/algorithms.py       the grouping helpers, the initial-state   *)
(*                               generator, update_global_state and the    *)
(*                               simulated-annealing worker;               *)
(*   modules/parallel_engine.py  solve_both_scenarios_parallel, the        *)
(*                               coordinator of the worker pool.           *)
(*                                                                         *)
(* A participant is a record [Name, Score]; a group member is the index of *)
(* its participant in the input list (Python keeps the dict object itself, *)
(* so two rows with equal fields stay two members).  A Name is the tuple   *)
(* of its characters, so that endswith('*') is computed, not assumed.      *)
(*                                                                         *)
(* Scores are counted in units of ScoreUnit points: the two float literals *)
(* of the program, 99999.0 and 999999.0, are whole numbers of that unit,   *)
(* and a standard deviation that exceeds them still fits TLC's integers.   *)
(***************************************************************************)
EXTENDS Integers, Sequences, FiniteSets, TLC

VARIABLES
    participants,     \* input: the list of participant records
    n_groups,         \* input: the requested number of groups
    duration,         \* input: the time budget, in seconds
    total_cores,      \* os.cpu_count() or 4
    pc,               \* where solve_both_scenarios_parallel stands
    cores_constrained,
    cores_unconstrained,
    shared_ns,        \* the manager Namespace: best_a_score, best_a_groups, ...
    locks,            \* [lock_a, lock_b]: 0 when free, else the holding worker
    stop_event,       \* the manager Event
    futures,          \* one record per submitted worker (its whole private state)
    final,            \* what the coordinator has retrieved / returned / raised
    balancer,         \* one call into the group_balancer package
    ortools,          \* one call of modules.solver.solve_with_ortools
    annealing         \* one call of run_simulated_annealing, a statement a step

vars == <<participants, n_groups, duration, total_cores, pc, cores_constrained,
          cores_unconstrained, shared_ns, locks, stop_event, futures, final,
          balancer, ortools, annealing>>

\* what solve_both_scenarios_parallel and its workers never write
inputs == <<participants, n_groups, duration, total_cores, balancer, ortools,
           annealing>>

--------------------------------------------------------------------------
(* Program constants                                                      *)

ADVANTAGE_CHAR == "*"

\* shared_ns.best_a_score = 99999.0 / shared_ns.best_b_score = 99999.0
INITIAL_BEST_SCORE == 99999

\* calculate_std_dev: "return np.std(avgs) if avgs else 999999.0"
NO_AVGS_STD == 999999

--------------------------------------------------------------------------
(* Bounds of the model                                                    *)

\* the largest number of groups asked for
MaxGroups == 3

\* the largest number of groups that two processes search at the same time
MaxRacingGroups == 2

--------------------------------------------------------------------------
(* Arithmetic                                                             *)

Max(a, b) == IF a >= b THEN a ELSE b

Min(a, b) == IF a <= b THEN a ELSE b

RECURSIVE GCD(_, _)
GCD(a, b) == IF b = 0 THEN a ELSE GCD(b, a % b)

LCM(a, b) == (a \div GCD(a, b)) * b

\* Python's a // b (floor division) for a >= 0 and b # 0
FloorDiv(a, b) == IF b > 0 THEN a \div b ELSE 0 - ((a + (0 - b) - 1) \div (0 - b))

\* Python's a % b for b # 0: the result has the sign of b
PyMod(a, b) == a - b * FloorDiv(a, b)

RECURSIVE IsqrtIn(_, _, _)
IsqrtIn(n, lo, hi) ==
    IF lo >= hi THEN lo
    ELSE LET mid == (lo + hi + 1) \div 2
         IN  IF mid * mid <= n THEN IsqrtIn(n, mid, hi) ELSE IsqrtIn(n, lo, mid - 1)

\* floor(sqrt(n)) for 0 <= n < 2^31
Isqrt(n) == IsqrtIn(n, 0, Min(n, 46340))

RECURSIVE SeqSum(_)
SeqSum(s) == IF s = <<>> THEN 0 ELSE Head(s) + SeqSum(Tail(s))

RECURSIVE SeqLCM(_)
SeqLCM(s) == IF s = <<>> THEN 1 ELSE LCM(Head(s), SeqLCM(Tail(s)))

Range(s) == {s[i] : i \in DOMAIN s}

\* s without its idx-th element (list.pop(idx) leaves this behind)
RemoveAt(s, idx) == [k \in 1..(Len(s) - 1) |-> IF k < idx THEN s[k] ELSE s[k + 1]]

--------------------------------------------------------------------------
(* Scores as floats.  A float is either a literal of the program or the    *)
(* population standard deviation sqrt(num)/den of a list of averages.      *)

ScoreUnit == GCD(NO_AVGS_STD, INITIAL_BEST_SCORE)

Literal(c) == [kind |-> "literal", num |-> c \div ScoreUnit, den |-> 1]

StdValue(v, d) == [kind |-> "std", num |-> v, den |-> d]

\* x < y on floats
FloatLess(x, y) ==
    CASE x.kind = "literal" /\ y.kind = "literal" -> x.num < y.num
      [] x.kind = "std" /\ y.kind = "std" ->
            IF x.den = y.den THEN x.num < y.num
            ELSE x.num * y.den * y.den < y.num * x.den * x.den
      [] x.kind = "std" /\ y.kind = "literal" ->
            \* sqrt(num)/den < c  <=>  num < (c*den)^2  <=>  floor(sqrt(num)) < c*den
            Isqrt(x.num) < y.num * x.den
      [] x.kind = "literal" /\ y.kind = "std" ->
            \* c < sqrt(num)/den  <=>  (c*den)^2 < num
            LET m == x.num * y.den
                r == Isqrt(y.num)
            IN  r > m \/ (r = m /\ y.num > m * m)

FloatEq(x, y) == ~FloatLess(x, y) /\ ~FloatLess(y, x)

--------------------------------------------------------------------------
(* modules/algorithms.py: helpers                                         *)

Score(p) == p.Score

\* str(p[config.COL_NAME]).endswith(config.ADVANTAGE_CHAR)
IsStar(p) == Len(p.Name) > 0 /\ p.Name[Len(p.Name)] = ADVANTAGE_CHAR

MemberScores(ps, g) == [k \in DOMAIN g.members |-> Score(ps[g.members[k]])]

\* an average sum/count as a fraction in lowest terms; 0.0 for an empty group
Avg(sum, count) ==
    IF count > 0 THEN LET d == GCD(sum, count) IN <<sum \div d, count \div d>>
    ELSE <<0, 1>>

\* RecalcGroup that adds to the current_sum it finds instead of summing afresh
RecalcGroup_adding_up(ps, g) ==
    LET s == g.current_sum + SeqSum(MemberScores(ps, g))
    IN  [g EXCEPT !.current_sum = s, !.avg = Avg(s, Len(g.members))]

\* lines 15-17, for one group
RecalcGroup(ps, g) ==
    LET s == SeqSum(MemberScores(ps, g))
    IN  [g EXCEPT !.current_sum = s, !.avg = Avg(s, Len(g.members))]

\* recalculate_sums(groups) applied to the groups at the indices in idxs
\* (the code passes the whole list, or [g1, g2] of it, and mutates in place)
RecalcAt(ps, groups, idxs) ==
    [i \in DOMAIN groups |-> IF i \in idxs THEN RecalcGroup(ps, groups[i]) ELSE groups[i]]

recalculate_sums(ps, groups) == RecalcAt(ps, groups, DOMAIN groups)

\* np.std of the averages s_i/c_i of the non-empty groups:
\* with L the lcm of the c_i and A_i = s_i * L / c_i, n the number of averages,
\* std = sqrt(n * SUM A_i^2 - (SUM A_i)^2) / (n * L)
calculate_std_dev(ps, groups) ==
    LET ne == SelectSeq(groups, LAMBDA g : Len(g.members) > 0)
        n  == Len(ne)
        L  == SeqLCM([i \in 1..n |-> Len(ne[i].members)])
        A  == [i \in 1..n |-> SeqSum(MemberScores(ps, ne[i])) * (L \div Len(ne[i].members))]
        sq == [i \in 1..n |-> A[i] * A[i]]
    IN  IF n = 0 THEN Literal(NO_AVGS_STD)
        ELSE StdValue(n * SeqSum(sq) - SeqSum(A) * SeqSum(A), n * L)

\* g.copy() and members[:] make values that share nothing; then recalculate_sums
deep_copy_groups(ps, grps) == recalculate_sums(ps, grps)

--------------------------------------------------------------------------
(* modules/algorithms.py: generate_random_state                           *)

\* an outcome of a call: a returned value, or the exception it raised
Returned(v) == [raised |-> "", value |-> v]

Raised(e) == [raised |-> e, value |-> <<>>]

\* [{'id': i+1, 'members': [], 'current_sum': 0} for i in range(num_groups)]
EmptyGroups(num_groups) ==
    [i \in 1..num_groups |-> [id |-> i, members |-> <<>>, current_sum |-> 0, avg |-> <<0, 1>>]]

\* is_safe(g, pool_rem), g the group at index gi
is_safe(groups, gi, pool_rem, min_size, max_size) ==
    LET need == [k \in DOMAIN groups |->
                    IF groups[k].id # groups[gi].id
                    THEN Max(0, min_size - Len(groups[k].members)) ELSE 0]
    IN  /\ Len(groups[gi].members) < max_size
        /\ (pool_rem - 1) >= SeqSum(need)

AppendTo(groups, gi, m) == [groups EXCEPT ![gi].members = Append(@, m)]

\* "for i, s in enumerate(stars): groups[i % num_groups]['members'].append(s)"
\* over every order random.shuffle(stars) can produce; i counts from 0.
\* Python indexes the list with i % num_groups: a negative index counts from
\* the end, and an index outside the list raises IndexError.
RECURSIVE PlaceStars(_, _, _, _)
PlaceStars(groups, rest, i, num_groups) ==
    IF rest = {} THEN {Returned(groups)}
    ELSE LET k  == PyMod(i, num_groups)
             gi == IF k >= 0 THEN k + 1 ELSE Len(groups) + k + 1
         IN  IF gi \notin DOMAIN groups THEN {Raised("IndexError")}
             ELSE UNION {PlaceStars(AppendTo(groups, gi, s), rest \ {s}, i + 1, num_groups)
                            : s \in rest}

\* PlaceNormals with a placement that may fail for one call and not for another
PlaceNormals_failing_at_times(groups, rest, pool_len, min_size, max_size) ==
    {Raised("IndexError"), Returned(groups)}

\* "for n in normals: ... target = random.choice(valid if valid else groups)"
\* over every order random.shuffle(normals) can produce
RECURSIVE PlaceNormals(_, _, _, _, _)
PlaceNormals(groups, rest, pool_len, min_size, max_size) ==
    IF rest = {} THEN {Returned(groups)}
    ELSE LET valid  == {gi \in DOMAIN groups : is_safe(groups, gi, pool_len, min_size, max_size)}
             choice == IF valid # {} THEN valid ELSE DOMAIN groups
         IN  IF choice = {} THEN {Raised("IndexError")}
             ELSE UNION {PlaceNormals(AppendTo(groups, gi, n), rest \ {n},
                                      pool_len - 1, min_size, max_size)
                            : n \in rest, gi \in choice}

\* the set of outcomes of generate_random_state(participants, num_groups, respect_stars)
generate_random_state(ps, num_groups, respect_stars) ==
    LET groups  == EmptyGroups(num_groups)
        stars   == IF respect_stars THEN {i \in DOMAIN ps : IsStar(ps[i])} ELSE {}
        normals == DOMAIN ps \ stars
        total   == Len(ps)
    IN  IF num_groups = 0 THEN {Raised("ZeroDivisionError")}
        ELSE LET min_size == FloorDiv(total, num_groups)
                 max_size == min_size + 1
                 seeded   == IF respect_stars
                             THEN PlaceStars(groups, stars, 0, num_groups)
                             ELSE {Returned(groups)}
                 placed   == UNION {IF o.raised # "" THEN {o}
                                    ELSE PlaceNormals(o.value, normals,
                                                      total - Cardinality(stars),
                                                      min_size, max_size)
                                       : o \in seeded}
             IN  {IF o.raised # "" THEN o ELSE Returned(recalculate_sums(ps, o.value))
                     : o \in placed}

--------------------------------------------------------------------------
(* modules/algorithms.py: the moves of run_simulated_annealing            *)

MemberIsStar(ps, g, idx) == IsStar(ps[g.members[idx]])

\* sum(1 for x in g['members'] if str(x[COL_NAME]).endswith(ADVANTAGE_CHAR))
StarCount(ps, g) == Cardinality({k \in DOMAIN g.members : MemberIsStar(ps, g, k)})

\* SwapPermitted without lines 164-167: any two members may be swapped
SwapPermitted_any_pair(ps, groups, i, j, idx1, idx2, respect_stars) == TRUE

\* lines 164-167: a constrained worker swaps only star with star, normal with normal
SwapPermitted(ps, groups, i, j, idx1, idx2, respect_stars) ==
    respect_stars => (MemberIsStar(ps, groups[i], idx1) = MemberIsStar(ps, groups[j], idx2))

\* lines 169-170 (and the revert, lines 182-183):
\* g1['members'][idx1], g2['members'][idx2] = g2['members'][idx2], g1['members'][idx1]
SwapMembers(ps, groups, i, j, idx1, idx2) ==
    RecalcAt(ps,
             [groups EXCEPT ![i].members[idx1] = groups[j].members[idx2],
                            ![j].members[idx2] = groups[i].members[idx1]],
             {i, j})

\* TransferPair without the size conditions of lines 190-191: g1 gives to g2
TransferPair_any_sizes(groups, i, j, min_size, max_size) == <<i, j>>

\* lines 189-191: <<src, dst>> among the sampled g1 = groups[i], g2 = groups[j],
\* or <<0, 0>> when src stays None
TransferPair(groups, i, j, min_size, max_size) ==
    IF Len(groups[i].members) = max_size /\ Len(groups[j].members) = min_size THEN <<i, j>>
    ELSE IF Len(groups[j].members) = max_size /\ Len(groups[i].members) = min_size THEN <<j, i>>
    ELSE <<0, 0>>

\* lines 196-199: "if is_star and dst_stars > 0: src = None"
StarBlocked(ps, groups, src, dst, idx, respect_stars) ==
    /\ respect_stars
    /\ MemberIsStar(ps, groups[src], idx)
    /\ StarCount(ps, groups[dst]) > 0

\* TransferMember without the append of line 203: the popped member is dropped
TransferMember_without_append(ps, groups, src, dst, idx) ==
    RecalcAt(ps, [groups EXCEPT ![src].members = RemoveAt(@, idx)], {src, dst})

\* lines 202-204: item = src['members'].pop(idx); dst['members'].append(item)
TransferMember(ps, groups, src, dst, idx) ==
    RecalcAt(ps,
             [groups EXCEPT ![src].members = RemoveAt(@, idx),
                            ![dst].members = Append(@, groups[src].members[idx])],
             {src, dst})

\* lines 216-218: item = dst['members'].pop(); src['members'].append(item)
RevertTransfer(ps, groups, src, dst) ==
    LET last == Len(groups[dst].members)
    IN  RecalcAt(ps,
                 [groups EXCEPT ![dst].members = RemoveAt(@, last),
                                ![src].members = Append(@, groups[dst].members[last])],
                 {src, dst})

\* Improves with "!=" for "<": a different deviation replaces the best one
Improves_when_different(curr_std, best_std) == ~FloatEq(curr_std, best_std)

\* Improves with "<=" for "<": an equally good grouping replaces the best one
Improves_or_equals(curr_std, best_std) == ~FloatLess(best_std, curr_std)

\* lines 174 and 208: "if curr_std < best_std"
Improves(curr_std, best_std) == FloatLess(curr_std, best_std)

\* lines 180-181 and 214-215: random.random() > math.exp(-diff * 100 / T), with
\* diff = curr_std - best_std >= 0 here.  random() is in [0, 1): with diff = 0
\* the exponential is 1 and the move is always kept; with diff > 0 it is below
\* 1 and the draw decides.  The set of possible answers to "revert?".
RevertChoices(curr_std, best_std) ==
    IF FloatLess(best_std, curr_std) THEN {TRUE, FALSE} ELSE {FALSE}

--------------------------------------------------------------------------
(* modules/parallel_engine.py: the state solve_both_scenarios_parallel     *)
(* builds before it submits anything (lines 28-50)                        *)

\* os.cpu_count() or 4, then max(1, total_cores // 2)
CoresConstrained(cores) == Max(1, cores \div 2)

\* max(1, total_cores - cores_constrained)
CoresUnconstrained(cores) == Max(1, cores - CoresConstrained(cores))

\* Python's None, and a groups list, as the value of one Namespace attribute
None == [is_none |-> TRUE, groups |-> <<>>]

Some(groups) == [is_none |-> FALSE, groups |-> groups]

InitialNamespace ==
    [best_a_score  |-> Literal(INITIAL_BEST_SCORE),
     best_b_score  |-> Literal(INITIAL_BEST_SCORE),
     best_a_groups |-> None,
     best_b_groups |-> None]

\* the parameters executor.submit hands to worker_wrapper, and the locals of
\* the run_simulated_annealing call they start
NewWorker(start_g, respect_stars) ==
    [respect_stars  |-> respect_stars,
     groups         |-> start_g,
     pc             |-> "submitted",
     slot           |-> "",
     ret            |-> "",
     best_groups    |-> <<>>,
     best_std       |-> Literal(NO_AVGS_STD),
     current_groups |-> <<>>,
     outcome        |-> Raised("")]

Workers == DOMAIN futures

\* f.done(): the call returned or raised
Done(w) == futures[w].pc \in {"returned", "raised"}

AllDone == \A w \in Workers : Done(w)

\* nothing retrieved, nothing raised yet
NoResult == [final_c |-> None, score_c |-> Literal(INITIAL_BEST_SCORE),
             final_u |-> None, score_u |-> Literal(INITIAL_BEST_SCORE),
             raised  |-> ""]

--------------------------------------------------------------------------
(* The inputs tried                                                       *)

Person(name, score) == [Name |-> name, Score |-> score]

\* two advantaged participants and one normal one; in two groups the three
\* splits have three different deviations, and the smallest one puts both
\* advantaged participants together
Trio == << Person(<<"a", "*">>, 1), Person(<<"b", "*">>, 4), Person(<<"c">>, 2) >>

\* the same roster with tied scores: two of its three splits tie
Tied == << Person(<<"a", "*">>, 1), Person(<<"b", "*">>, 1), Person(<<"c">>, 2) >>

\* two participants whose scores lie 225000 points (25000 units) apart
Far == << Person(<<"x">>, 0), Person(<<"y">>, 25000) >>

Rosters == {SubSeq(Trio, 1, n) : n \in 0..Len(Trio)} \cup {Tied, Far}

GroupCounts == (0 - 1)..MaxGroups

Durations == {0, 1}

CoreCounts == {1, 2, 3}

\* the other entry points of the repository are not called in this run
NotCalled == [pc |-> "not_called"]

--------------------------------------------------------------------------
(* Initial state: solve_both_scenarios_parallel has built the manager     *)
(* state (lines 28-50) and is about to submit its first worker            *)

Init ==
    /\ participants \in Rosters
    /\ n_groups \in GroupCounts
    /\ duration \in Durations
    /\ total_cores \in CoreCounts
    \* Trio is searched by one process at a time, Tied by two at once
    /\ (participants = Trio /\ duration > 0) => total_cores = 1
    /\ (n_groups > MaxRacingGroups /\ duration > 0) => total_cores = 1
    \* three processes only start and end their calls, for no participant
    /\ total_cores > 2 => (duration = 0 /\ participants = <<>>)
    /\ cores_constrained = CoresConstrained(total_cores)
    /\ cores_unconstrained = CoresUnconstrained(total_cores)
    /\ shared_ns = InitialNamespace
    /\ locks = [lock_a |-> 0, lock_b |-> 0]
    /\ stop_event = FALSE
    /\ futures = <<>>
    /\ pc = "submit_constrained"
    /\ final = NoResult
    /\ balancer = NotCalled
    /\ ortools = NotCalled
    /\ annealing = NotCalled

--------------------------------------------------------------------------
(* modules/parallel_engine.py: solve_both_scenarios_parallel              *)

\* lines 56-59: one pass of "for _ in range(cores_constrained)".  An exception
\* of generate_random_state leaves the with block (ExecutorShutdown).
SubmitConstrained ==
    /\ pc = "submit_constrained"
    /\ \E o \in generate_random_state(participants, n_groups, TRUE) :
          IF o.raised # ""
          THEN /\ pc' = "shutdown"
               /\ final' = [final EXCEPT !.raised = o.raised]
               /\ UNCHANGED futures
          ELSE /\ futures' = Append(futures, NewWorker(o.value, TRUE))
               /\ pc' = IF Len(futures) + 1 >= cores_constrained
                        THEN "submit_unconstrained" ELSE "submit_constrained"
               /\ UNCHANGED final
    /\ UNCHANGED <<inputs, cores_constrained, cores_unconstrained, shared_ns, locks,
                   stop_event>>

\* lines 62-65
SubmitUnconstrained ==
    /\ pc = "submit_unconstrained"
    /\ \E o \in generate_random_state(participants, n_groups, FALSE) :
          IF o.raised # ""
          THEN /\ pc' = "shutdown"
               /\ final' = [final EXCEPT !.raised = o.raised]
               /\ UNCHANGED futures
          ELSE /\ futures' = Append(futures, NewWorker(o.value, FALSE))
               /\ pc' = IF Len(futures) + 1 >= cores_constrained + cores_unconstrained
                        THEN "monitor" ELSE "submit_unconstrained"
               /\ UNCHANGED final
    /\ UNCHANGED <<inputs, cores_constrained, cores_unconstrained, shared_ns, locks,
                   stop_event>>

\* lines 85-87: "if all(f.done() for f in futures): ... break"
MonitorAllDone ==
    /\ pc = "monitor"
    /\ AllDone
    /\ pc' = "shutdown"
    /\ UNCHANGED <<inputs, cores_constrained, cores_unconstrained, shared_ns, locks,
                   stop_event, futures, final>>

\* lines 72 and 90-91: elapsed = int(time.time() - start_time);
\* "if elapsed > duration + 2: break".  The clock is not part of the state:
\* whatever the workers have done so far, the pass of the monitor loop that
\* looks at them may come this late.
MonitorTimeLimit ==
    /\ pc = "monitor"
    /\ ~AllDone
    /\ pc' = "shutdown"
    /\ UNCHANGED <<inputs, cores_constrained, cores_unconstrained, shared_ns, locks,
                   stop_event, futures, final>>

\* lines 95-100: Ctrl+C inside the try block: stop_event.set(), then on
KeyboardInterrupt ==
    /\ pc = "monitor"
    /\ stop_event' = TRUE
    /\ pc' = "shutdown"
    /\ UNCHANGED <<inputs, cores_constrained, cores_unconstrained, shared_ns, locks,
                   futures, final>>

\* line 52, leaving "with ProcessPoolExecutor(...) as executor": __exit__ calls
\* shutdown(wait=True), which returns when every submitted call has finished;
\* then an exception that left the block reaches the caller
ExecutorShutdown ==
    /\ pc = "shutdown"
    /\ AllDone
    /\ pc' = IF final.raised # "" THEN "raised" ELSE "retrieve_c"
    /\ UNCHANGED <<inputs, cores_constrained, cores_unconstrained, shared_ns, locks,
                   stop_event, futures, final>>

\* lines 104-105
RetrieveConstrained ==
    /\ pc = "retrieve_c"
    /\ final' = [final EXCEPT !.final_c = shared_ns.best_a_groups,
                              !.score_c = shared_ns.best_a_score]
    /\ pc' = "retrieve_u"
    /\ UNCHANGED <<inputs, cores_constrained, cores_unconstrained, shared_ns, locks,
                   stop_event, futures>>

\* "if final is None: final = []"
OrEmptyList(v) == IF v.is_none THEN Some(<<>>) ELSE v

\* lines 107-113
RetrieveUnconstrained ==
    /\ pc = "retrieve_u"
    /\ pc' = "returned"
    /\ final' = [final EXCEPT !.final_c = OrEmptyList(@),
                              !.final_u = OrEmptyList(shared_ns.best_b_groups),
                              !.score_u = shared_ns.best_b_score]
    /\ UNCHANGED <<inputs, cores_constrained, cores_unconstrained, shared_ns, locks,
                   stop_event, futures>>

--------------------------------------------------------------------------
(* modules/algorithms.py: update_global_state, one shared access a step   *)
(* ("if not shared_ns: return" never returns here: the proxy is truthy)   *)

coordinator == <<inputs, pc, cores_constrained, cores_unconstrained, stop_event, final>>

ScoreKey(slot) == IF slot = "a" THEN "best_a_score" ELSE "best_b_score"

GroupsKey(slot) == IF slot = "a" THEN "best_a_groups" ELSE "best_b_groups"

LockKey(slot) == IF slot = "a" THEN "lock_a" ELSE "lock_b"

\* the call update_global_state(best_groups, best_std, respect_stars, ...):
\* a constrained worker starts at "if is_constrained:" with record A, any
\* other at line 119 with record B; ret is where the caller goes on
CallUpdate(f, ret) ==
    [f EXCEPT !.pc = "check", !.slot = IF f.respect_stars THEN "a" ELSE "b", !.ret = ret]

\* AfterSlot without lines 119-123 for a constrained worker: back to the
\* caller after the one record
AfterSlot_one_record(f) == [f EXCEPT !.pc = f.ret, !.slot = "", !.ret = ""]

\* after the block of one record: from A on to line 119, from B back to the caller
AfterSlot(f) ==
    IF f.slot = "a" THEN [f EXCEPT !.pc = "check", !.slot = "b"]
    ELSE [f EXCEPT !.pc = f.ret, !.slot = "", !.ret = ""]

\* lines 114 and 119: the unlocked "if local_std < shared_ns.best_x_score"
UpdateCheck(w) ==
    /\ futures[w].pc = "check"
    /\ futures' = [futures EXCEPT ![w] =
                      IF FloatLess(@.best_std, shared_ns[ScoreKey(@.slot)])
                      THEN [@ EXCEPT !.pc = "lock"] ELSE AfterSlot(@)]
    /\ UNCHANGED <<coordinator, shared_ns, locks>>

\* lines 115 and 120: "with locks[i]:" acquires the lock
UpdateLock(w) ==
    /\ futures[w].pc = "lock"
    /\ locks[LockKey(futures[w].slot)] = 0
    /\ locks' = [locks EXCEPT ![LockKey(futures[w].slot)] = w]
    /\ futures' = [futures EXCEPT ![w].pc = "compare"]
    /\ UNCHANGED <<coordinator, shared_ns>>

\* UpdateCompareAndSet without the comparison of lines 116 and 121: whoever
\* holds the lock writes its score
UpdateCompareAndSet_unconditional(w) ==
    /\ futures[w].pc = "compare"
    /\ shared_ns' = [shared_ns EXCEPT ![ScoreKey(futures[w].slot)] = futures[w].best_std]
    /\ futures' = [futures EXCEPT ![w].pc = "store"]
    /\ UNCHANGED <<coordinator, locks>>

\* lines 116-117 and 121-122: the comparison again, now holding the lock, and
\* the write of the score; when it fails the with block ends (lock released)
UpdateCompareAndSet(w) ==
    /\ futures[w].pc = "compare"
    /\ IF FloatLess(futures[w].best_std, shared_ns[ScoreKey(futures[w].slot)])
       THEN /\ shared_ns' = [shared_ns EXCEPT ![ScoreKey(futures[w].slot)] = futures[w].best_std]
            /\ futures' = [futures EXCEPT ![w].pc = "store"]
            /\ UNCHANGED locks
       ELSE /\ locks' = [locks EXCEPT ![LockKey(futures[w].slot)] = 0]
            /\ futures' = [futures EXCEPT ![w] = AfterSlot(@)]
            /\ UNCHANGED shared_ns
    /\ UNCHANGED coordinator

\* UpdateStore inside a with block that does not end: the lock is kept
UpdateStore_keeping_lock(w) ==
    /\ futures[w].pc = "store"
    /\ shared_ns' = [shared_ns EXCEPT ![GroupsKey(futures[w].slot)] = Some(futures[w].best_groups)]
    /\ futures' = [futures EXCEPT ![w] = AfterSlot(@)]
    /\ UNCHANGED <<coordinator, locks>>

\* lines 118 and 123: the write of the groups (the proxy pickles local_groups,
\* the Namespace holds a copy); the with block ends
UpdateStore(w) ==
    /\ futures[w].pc = "store"
    /\ shared_ns' = [shared_ns EXCEPT ![GroupsKey(futures[w].slot)] = Some(futures[w].best_groups)]
    /\ locks' = [locks EXCEPT ![LockKey(futures[w].slot)] = 0]
    /\ futures' = [futures EXCEPT ![w] = AfterSlot(@)]
    /\ UNCHANGED coordinator

--------------------------------------------------------------------------
(* modules/algorithms.py: run_simulated_annealing                         *)

\* a pool of max_workers = total_cores processes takes the calls in the order
\* they were submitted, each process one call at a time
MayStart(w) ==
    /\ futures[w].pc = "submitted"
    /\ \A v \in Workers : v < w => futures[v].pc # "submitted"
    /\ Cardinality({v \in Workers : futures[v].pc # "submitted" /\ ~Done(v)}) < total_cores

\* lines 129-135: best_groups, best_std, then update_global_state
WorkerStart(w) ==
    /\ MayStart(w)
    /\ \E best \in {deep_copy_groups(participants, futures[w].groups)} :
          futures' = [futures EXCEPT ![w] =
             CallUpdate([futures[w] EXCEPT !.best_groups = best,
                                           !.best_std = calculate_std_dev(participants, best)],
                        "setup")]
    /\ UNCHANGED <<coordinator, shared_ns, locks>>

\* line 226: return best_groups, best_std (the future keeps the pair, the
\* locals of the call are gone)
Return(f) ==
    [f EXCEPT !.pc = "returned", !.outcome = Returned(<<f.best_groups, f.best_std>>),
              !.current_groups = <<>>, !.best_groups = <<>>]

\* the call raised e
Raise(f, e) ==
    [f EXCEPT !.pc = "raised", !.outcome = Raised(e),
              !.current_groups = <<>>, !.best_groups = <<>>]

\* line 144
TotalPeople(groups) == SeqSum([i \in DOMAIN groups |-> Len(groups[i].members)])

\* lines 145-146, for a non-empty list of groups
MinSize(groups) == FloorDiv(TotalPeople(groups), Len(groups))

MaxSize(groups) == MinSize(groups) + 1

\* lines 137-148: current_groups; "total_people // len(groups)" divides by zero
\* when the list of groups is empty
WorkerSetup(w) ==
    /\ futures[w].pc = "setup"
    /\ LET f == [futures[w] EXCEPT
                    !.current_groups = deep_copy_groups(participants, futures[w].groups)]
       IN  futures' = [futures EXCEPT ![w] =
              IF Len(f.groups) = 0
              THEN Raise(f, "ZeroDivisionError")
              ELSE [f EXCEPT !.pc = "loop"]]
    /\ UNCHANGED <<coordinator, shared_ns, locks>>

\* BudgetLeft of a loop whose condition never fails: "while True"
BudgetLeft_never_used_up == {TRUE}

\* line 150: "while (time.time() - start_time) < duration".  The clock is not
\* part of the state: with duration > 0 the elapsed time read at a loop top
\* may be below the budget or not (the process may have been kept waiting for
\* any time since start_time was taken); with duration <= 0 it never is below.
BudgetLeft == {TRUE, FALSE} \ (IF duration > 0 THEN {} ELSE {TRUE})

\* line 150: the while condition fails
LoopTimeout(w) ==
    /\ futures[w].pc = "loop"
    /\ FALSE \in BudgetLeft
    /\ futures' = [futures EXCEPT ![w] = Return(@)]
    /\ UNCHANGED <<coordinator, shared_ns, locks>>

\* lines 152-153: "if stop_event and stop_event.is_set(): break"
LoopStop(w) ==
    /\ futures[w].pc = "loop"
    /\ TRUE \in BudgetLeft
    /\ stop_event
    /\ futures' = [futures EXCEPT ![w] = Return(@)]
    /\ UNCHANGED <<coordinator, shared_ns, locks>>

\* Iterating without lines 152-153: the loop body is entered whatever stop_event says
Iterating_without_stop_check(w) ==
    /\ futures[w].pc = "loop"
    /\ TRUE \in BudgetLeft

\* the loop body is entered
Iterating(w) ==
    /\ futures[w].pc = "loop"
    /\ TRUE \in BudgetLeft
    /\ ~stop_event

\* line 156: random.sample(current_groups, 2) raises ValueError on a list
\* shorter than 2
SampleFails(w) ==
    /\ Iterating(w)
    /\ Len(futures[w].current_groups) < 2
    /\ futures' = [futures EXCEPT ![w] = Raise(@, "ValueError")]
    /\ UNCHANGED <<coordinator, shared_ns, locks>>

\* the worker after a move left current_groups as moved, with standard
\* deviation curr_std: lines 174-185 and 208-220.  reverted is what the revert
\* of the move would restore.
AfterMove(f, moved, reverted) ==
    LET curr_std == calculate_std_dev(participants, moved)
    IN  IF Improves(curr_std, f.best_std)
        THEN {CallUpdate([f EXCEPT !.current_groups = moved,
                                   !.best_std = curr_std,
                                   !.best_groups = deep_copy_groups(participants, moved)],
                         "loop")}
        ELSE {[f EXCEPT !.current_groups = IF revert THEN reverted ELSE moved]
                 : revert \in RevertChoices(curr_std, f.best_std)}

\* lines 160 and 167: the two "continue" of a swap iteration
SwapSkipped(w) ==
    /\ Iterating(w)
    /\ \E i, j \in DOMAIN futures[w].current_groups :
          LET g == futures[w].current_groups IN
          /\ i # j
          /\ \/ g[i].members = <<>>
             \/ g[j].members = <<>>
             \/ \E idx1 \in DOMAIN g[i].members, idx2 \in DOMAIN g[j].members :
                   ~SwapPermitted(participants, g, i, j, idx1, idx2, futures[w].respect_stars)
    /\ UNCHANGED vars

\* lines 159-185: one iteration with move_type = 'swap'
Swap(w) ==
    /\ Iterating(w)
    /\ \E i, j \in DOMAIN futures[w].current_groups :
          LET g == futures[w].current_groups IN
          /\ i # j
          /\ \E idx1 \in DOMAIN g[i].members, idx2 \in DOMAIN g[j].members :
                /\ SwapPermitted(participants, g, i, j, idx1, idx2, futures[w].respect_stars)
                /\ LET moved == SwapMembers(participants, g, i, j, idx1, idx2)
                   IN  \E f \in AfterMove(futures[w], moved,
                                          SwapMembers(participants, moved, i, j, idx1, idx2)) :
                          futures' = [futures EXCEPT ![w] = f]
    /\ UNCHANGED <<coordinator, shared_ns, locks>>

\* lines 188-201: a transfer iteration that moves nothing: no pair of sizes
\* (max_size, min_size), or a star that may not enter dst
TransferSkipped(w) ==
    /\ Iterating(w)
    /\ \E i, j \in DOMAIN futures[w].current_groups :
          LET g  == futures[w].current_groups
              sd == TransferPair(g, i, j, MinSize(futures[w].groups), MaxSize(futures[w].groups))
          IN  /\ i # j
              /\ \/ sd = <<0, 0>>
                 \/ /\ sd # <<0, 0>>
                    /\ \E idx \in DOMAIN g[sd[1]].members :
                          StarBlocked(participants, g, sd[1], sd[2], idx, futures[w].respect_stars)
    /\ UNCHANGED vars

\* lines 188-220: one iteration with move_type = 'transfer' that moves a member
Transfer(w) ==
    /\ Iterating(w)
    /\ \E i, j \in DOMAIN futures[w].current_groups :
          LET g  == futures[w].current_groups
              sd == TransferPair(g, i, j, MinSize(futures[w].groups), MaxSize(futures[w].groups))
          IN  /\ i # j
              /\ sd # <<0, 0>>
              /\ \E idx \in DOMAIN g[sd[1]].members :
                    /\ ~StarBlocked(participants, g, sd[1], sd[2], idx, futures[w].respect_stars)
                    /\ LET moved == TransferMember(participants, g, sd[1], sd[2], idx)
                       IN  \E f \in AfterMove(futures[w], moved,
                                              RevertTransfer(participants, moved, sd[1], sd[2])) :
                              futures' = [futures EXCEPT ![w] = f]
    /\ UNCHANGED <<coordinator, shared_ns, locks>>

--------------------------------------------------------------------------
(* The system                                                             *)

Next ==
    \/ SubmitConstrained
    \/ SubmitUnconstrained
    \/ MonitorAllDone
    \/ MonitorTimeLimit
    \/ KeyboardInterrupt
    \/ ExecutorShutdown
    \/ RetrieveConstrained
    \/ RetrieveUnconstrained
    \/ \E w \in Workers : WorkerStart(w)
    \/ \E w \in Workers : UpdateCheck(w)
    \/ \E w \in Workers : UpdateLock(w)
    \/ \E w \in Workers : UpdateCompareAndSet(w)
    \/ \E w \in Workers : UpdateStore(w)
    \/ \E w \in Workers : WorkerSetup(w)
    \/ \E w \in Workers : LoopTimeout(w)
    \/ \E w \in Workers : LoopStop(w)
    \/ \E w \in Workers : SampleFails(w)
    \/ \E w \in Workers : SwapSkipped(w)
    \/ \E w \in Workers : Swap(w)
    \/ \E w \in Workers : TransferSkipped(w)
    \/ \E w \in Workers : Transfer(w)

Spec == Init /\ [][Next]_vars

--------------------------------------------------------------------------
(* What a grouping has to satisfy                                         *)

N == Len(participants)

\* 1 <= G <= N
ValidInput == 1 <= n_groups /\ n_groups <= N

\* how often participant p is a member, over all groups
Occurrences(groups, p) ==
    SeqSum([i \in DOMAIN groups |->
               Cardinality({k \in DOMAIN groups[i].members : groups[i].members[k] = p})])

\* every participant is a member of exactly one group, exactly once
IsPartition(groups) ==
    /\ \A p \in DOMAIN participants : Occurrences(groups, p) = 1
    /\ TotalPeople(groups) = N

\* with N = q * G + r: G groups, r of them of q + 1 members, G - r of q members
SizeBalanced(groups) ==
    LET q == N \div n_groups
        r == N % n_groups
    IN  /\ Len(groups) = n_groups
        /\ Cardinality({i \in DOMAIN groups : Len(groups[i].members) = q + 1}) = r
        /\ Cardinality({i \in DOMAIN groups : Len(groups[i].members) = q}) = n_groups - r

\* the numbers of advantaged members of any two groups differ by at most 1
StarBalanced(groups) ==
    \A i, j \in DOMAIN groups :
        StarCount(participants, groups[i]) <= StarCount(participants, groups[j]) + 1

Sizes(groups) == [i \in DOMAIN groups |-> Len(groups[i].members)]

\* the call has its best_groups / its current_groups
HasBest(f) == f.pc \notin {"submitted", "returned", "raised"}

HasCurrent(f) == f.pc = "loop" \/ (f.pc \in {"check", "lock", "compare", "store"} /\ f.ret = "loop")

\* the groupings of one worker: the one it was started with, its best and
\* its current one, and the one it returned
WorkerGroupings(w) ==
    LET f == futures[w]
    IN  {f.groups}
        \cup (IF HasBest(f) THEN {f.best_groups} ELSE {})
        \cup (IF HasCurrent(f) THEN {f.current_groups} ELSE {})
        \cup (IF f.pc = "returned" THEN {f.outcome.value[1]} ELSE {})

SearchGroupings == UNION {WorkerGroupings(w) : w \in Workers}

\* the groupings in the two shared records
StoredGroupings ==
    {shared_ns[k].groups : k \in {kk \in {"best_a_groups", "best_b_groups"} : ~shared_ns[kk].is_none}}

\* the two lists solve_both_scenarios_parallel has returned
ReturnedGroupings == IF pc = "returned" THEN {final.final_c.groups, final.final_u.groups} ELSE {}

\* those of the two returned lists that were read from a shared record that held one
HarvestedGroupings ==
    IF pc # "returned" THEN {}
    ELSE (IF shared_ns.best_a_groups.is_none THEN {} ELSE {final.final_c.groups})
         \cup (IF shared_ns.best_b_groups.is_none THEN {} ELSE {final.final_u.groups})

Constrained == {w \in Workers : futures[w].respect_stars}

Unconstrained == Workers \ Constrained

--------------------------------------------------------------------------
(* The claims                                                             *)

\* C1: in every reachable state every participant appears in exactly one
\* group, exactly once: in the grouping each worker was started with, in its
\* current grouping after any swaps and transfers (kept or reverted), in its
\* best grouping and the one it returns, in the groupings stored in either
\* shared record, and in those groupings as solve_both_scenarios_parallel
\* returns them.  (The empty list returned for a record that stored no
\* grouping is the subject of C9.)
C1_EveryoneInExactlyOneGroup ==
    \A g \in SearchGroupings \cup StoredGroupings \cup HarvestedGroupings : IsPartition(g)

\* three participants, and the returned unconstrained result is a grouping
\* that no worker was started with: moves have made it
C1_MovedResultReturned ==
    /\ pc = "returned"
    /\ N = 3
    /\ final.final_u.groups # <<>>
    /\ \A w \in Workers : final.final_u.groups # futures[w].groups

\* C2: for 1 <= G <= N the generated grouping and every current, best, stored
\* and returned grouping derived from it by swaps and transfers has exactly
\* r groups of q + 1 members and G - r groups of q members (N = q * G + r).
C2_GroupSizesBalanced ==
    ValidInput =>
        \A g \in SearchGroupings \cup StoredGroupings \cup HarvestedGroupings : SizeBalanced(g)

\* a worker whose transfer has changed which group is the larger one
C2_TransferDone ==
    /\ ValidInput
    /\ \E w \in Workers : HasCurrent(futures[w])
                          /\ Sizes(futures[w].current_groups) # Sizes(futures[w].groups)

\* C3: the advantaged-member counts of any two groups differ by at most 1 in
\* every grouping stored in best_a_groups and in the returned constrained
\* result, whatever the constrained and unconstrained workers have done.
C3_ConstrainedStarsBalanced ==
    /\ ~shared_ns.best_a_groups.is_none => StarBalanced(shared_ns.best_a_groups.groups)
    /\ pc = "returned" => StarBalanced(final.final_c.groups)
    /\ \A w \in Constrained : \A g \in WorkerGroupings(w) : StarBalanced(g)

\* the returned constrained result is one a constrained worker reached by its
\* moves, with two advantaged participants, while the unconstrained result
\* has both of them in one group
C3_MovedConstrainedResult ==
    /\ pc = "returned"
    /\ final.final_c.groups # <<>>
    /\ \A w \in Constrained : final.final_c.groups # futures[w].groups
    /\ Cardinality({p \in DOMAIN participants : IsStar(participants[p])}) = 2
    /\ ~StarBalanced(final.final_u.groups)

\* C4: within one run of run_simulated_annealing best_std is only ever
\* replaced by a strictly smaller value.
C4_BestStdNeverRegresses ==
    [][\A w \in DOMAIN futures :
          (HasBest(futures[w]) /\ HasBest(futures'[w]) /\ futures'[w].best_std # futures[w].best_std)
              => FloatLess(futures'[w].best_std, futures[w].best_std)]_vars

\* a worker whose best_std is below the deviation of the grouping it started with
C4_Improved ==
    \E w \in Workers :
        /\ HasBest(futures[w])
        /\ FloatLess(futures[w].best_std, calculate_std_dev(participants, futures[w].groups))

\* C5: the score of each shared record never increases, and a worker that
\* holds the lock with a value that is not better than the stored score
\* leaves the record as it is.
C5_StoredScoreNeverIncreases ==
    [][/\ ~FloatLess(shared_ns.best_a_score, shared_ns'.best_a_score)
       /\ ~FloatLess(shared_ns.best_b_score, shared_ns'.best_b_score)
       /\ \A w \in DOMAIN futures :
             (/\ futures[w].pc = "compare"
              /\ ~FloatLess(futures[w].best_std, shared_ns[ScoreKey(futures[w].slot)])
              /\ futures'[w] # futures[w])
                 => shared_ns' = shared_ns]_vars

\* a worker passed the unlocked check and now holds the lock, and the score
\* another worker stored meanwhile is below its own
C5_StaleFastPath ==
    \E w \in Workers :
        /\ futures[w].pc = "compare"
        /\ FloatLess(shared_ns[ScoreKey(futures[w].slot)], futures[w].best_std)

\* C6: when solve_both_scenarios_parallel returns, score_u <= score_c; and if
\* a constrained worker's best deviation is strictly below that of every
\* unconstrained worker, the unconstrained result has the constrained score
\* and is the constrained result (or the equally good best grouping of
\* another constrained worker).
C6_UnconstrainedNeverWorse ==
    pc = "returned" =>
        /\ ~FloatLess(final.score_c, final.score_u)
        /\ (\E c \in Constrained : \A u \in Unconstrained :
                FloatLess(futures[c].best_std, futures[u].best_std))
              => /\ FloatEq(final.score_u, final.score_c)
                 /\ \/ final.final_u.groups = final.final_c.groups
                    \/ \E c \in Constrained :
                          futures[c].outcome = Returned(<<final.final_u.groups, final.score_u>>)

\* returned, with a constrained worker strictly better than every
\* unconstrained one
C6_Promoted ==
    /\ pc = "returned"
    /\ final.final_u.groups # <<>>
    /\ final.final_u.groups = final.final_c.groups
    /\ \E c \in Constrained : \A u \in Unconstrained :
          FloatLess(futures[c].best_std, futures[u].best_std)

\* C7: once stop_event is set, the next step of a worker that is at the top
\* of its loop is to return its best grouping and best_std - it makes no
\* move - and that grouping is a partition with balanced sizes.
C7_StopLeavesLoop ==
    [][\A w \in DOMAIN futures :
          (stop_event /\ futures[w].pc = "loop" /\ futures'[w] # futures[w])
              => /\ futures'[w].pc = "returned"
                 /\ futures'[w].outcome = Returned(<<futures[w].best_groups, futures[w].best_std>>)
                 /\ IsPartition(futures[w].best_groups)
                 /\ SizeBalanced(futures[w].best_groups)]_vars

\* stop_event is set and a worker has returned a grouping it found by its moves
C7_StoppedWithBest ==
    /\ stop_event
    /\ duration > 0
    /\ \E w \in Workers : /\ futures[w].pc = "returned"
                          /\ futures[w].outcome.value[1] # futures[w].groups

\* C8: for 1 <= G <= N (G = 1 included) a worker that has completed its
\* initialization ends by returning; it never ends by raising an exception.
C8_WorkerNeverRaises ==
    ValidInput => \A w \in Workers : futures[w].pc # "raised"

\* C9: for 1 <= G <= N each of the two groupings solve_both_scenarios_parallel
\* returns has exactly G groups and is a partition; neither is the empty list.
C9_ReturnsCompleteGroupings ==
    (ValidInput /\ pc = "returned") =>
        \A g \in ReturnedGroupings : g # <<>> /\ Len(g) = n_groups /\ IsPartition(g)

\* C10: with G > N the first call of generate_random_state raises: no
\* grouping is produced and no worker is submitted.
C10_TooManyGroupsFailsFast ==
    (n_groups > N /\ pc # "submit_constrained") => (final.raised # "" /\ futures = <<>>)

\* C11: with a group count below 1 solve_both_scenarios_parallel ends with an
\* error raised before any worker is submitted, and returns no grouping.
C11_GroupCountBelowOneRaises ==
    n_groups < 1 =>
        /\ futures = <<>>
        /\ pc \in {"submit_constrained", "shutdown", "raised"}
        /\ pc # "submit_constrained" => final.raised # ""

\* C12: with no participants and G >= 1 the call does not fail, and it returns
\* for each variant G groups without members, with a score of 0 or one of
\* the two values the code uses for "no score" (999999.0 and 99999.0).
C12_EmptyRosterGivesEmptyGroups ==
    (N = 0 /\ n_groups >= 1) =>
        /\ pc # "raised"
        /\ pc = "returned" =>
              /\ \A g \in ReturnedGroupings :
                    Len(g) = n_groups /\ \A i \in DOMAIN g : g[i].members = <<>>
              /\ \A x \in {final.score_c, final.score_u} :
                    \/ FloatEq(x, StdValue(0, 1))
                    \/ FloatEq(x, Literal(NO_AVGS_STD))
                    \/ FloatEq(x, Literal(INITIAL_BEST_SCORE))

\* the calls generate_random_state(participants, n_groups, respect_stars) all raise
EveryBuildFails(respect_stars) ==
    \A o \in generate_random_state(participants, n_groups, respect_stars) : o.raised # ""

C13_WorkerFailedAlone ==
    /\ pc = "returned"
    /\ \E v, w \in Workers : futures[v].pc = "raised" /\ futures[w].pc = "returned"

\* C14: with C >= 1 execution units the coordinator launches ceil(C / 2)
\* constrained workers and C - ceil(C / 2) unconstrained ones, but at least 1.
C14_CeilingHalfConstrained ==
    pc = "monitor" =>
        /\ Cardinality(Constrained) = (total_cores + 1) \div 2
        /\ Cardinality(Unconstrained) = Max(1, total_cores - (total_cores + 1) \div 2)

\* the deviation of the grouping the worker was started with
SeedStd(w) == calculate_std_dev(participants, futures[w].groups)

\* C15: a worker none of whose moves has produced a deviation below its
\* seed's has the seed as its best grouping, member for member, and the
\* seed's deviation as best_std, whatever worsening moves its current
\* grouping has kept; and that is what it returns.
C15_NoImprovementKeepsSeed ==
    \A w \in Workers :
        LET f == futures[w]
            seed == SeedStd(w)
        IN  /\ (HasBest(f) /\ ~FloatLess(f.best_std, seed))
                  => /\ f.best_std = seed
                     /\ Sizes(f.best_groups) = Sizes(f.groups)
                     /\ \A i \in DOMAIN f.groups : f.best_groups[i].members = f.groups[i].members
            /\ (f.pc = "returned" /\ ~FloatLess(f.best_std, seed))
                  => f.outcome = Returned(<<f.groups, seed>>)

\* a worker whose current grouping is worse than its seed, which is still its best
C15_WorseningMoveKept ==
    \E w \in Workers :
        /\ HasCurrent(futures[w])
        /\ futures[w].best_groups = futures[w].groups
        /\ FloatLess(SeedStd(w), calculate_std_dev(participants, futures[w].current_groups))

\* a grouping as generate_random_state holds it before line 68: the members
\* are placed, current_sum is still the 0 of line 38
Unsummed(groups) ==
    [i \in DOMAIN groups |-> [groups[i] EXCEPT !.current_sum = 0, !.avg = <<0, 1>>]]

\* applying recalculate_sums to x twice gives what applying it once gives,
\* and the members of x stay as they are
RecalculatesOnce(x) ==
    LET once == recalculate_sums(participants, x)
    IN  /\ recalculate_sums(participants, once) = once
        /\ \A i \in DOMAIN x : once[i].members = x[i].members /\ once[i].id = x[i].id
        /\ DOMAIN once = DOMAIN x

\* C16: recalculate_sums is idempotent - a second application leaves every
\* current_sum and avg as the first one made them - and it never changes
\* the members of a group.
C16_RecalculateSumsIdempotent ==
    \A g \in SearchGroupings \cup StoredGroupings :
        RecalculatesOnce(g) /\ RecalculatesOnce(Unsummed(g))

\* a grouping of three participants whose sums recalculate_sums has to change
C16_SumsRecalculated ==
    \E g \in SearchGroupings :
        /\ TotalPeople(g) = 3
        /\ recalculate_sums(participants, Unsummed(g)) # Unsummed(g)

--------------------------------------------------------------------------
(* The group_balancer package: models.py, balance_engine.py and           *)
(* group_optimizer.py.                                                    *)
(*                                                                        *)
(* A Participant is a record [name, score, has_advantage]; a Group is the *)
(* list of its members, each the index of its Participant in the input    *)
(* list (names are distinct, so dataclass equality, list.remove and the   *)
(* name sets of the code all tell members apart exactly as indices do).   *)
(* Group.id is the position of the group in its list.  Scores are small   *)
(* whole numbers; averages and variances are exact fractions <<n, d>>,    *)
(* d > 0, in lowest terms.                                                *)

\* the largest participant list handed to the package
MaxParticipants == 3

\* the scores a Participant can have
BalancerScores == {1, 2, 4}

Participant(name, score, has_advantage) ==
    [name |-> name, score |-> score, has_advantage |-> has_advantage]

Abs(a) == IF a < 0 THEN 0 - a ELSE a

Frac(n, d) ==
    LET g == GCD(Abs(n), d) IN IF n = 0 THEN <<0, 1>> ELSE <<n \div g, d \div g>>

FracAdd(a, b) == Frac(a[1] * b[2] + b[1] * a[2], a[2] * b[2])

FracLess(a, b) == a[1] * b[2] < b[1] * a[2]

\* a < b - thousandths / 1000, as in "new_variance < best_variance - 0.001"
FracLessBy(a, b, thousandths) ==
    LET p == b[1] * a[2] - a[1] * b[2]
        q == a[2] * b[2]
    IN  p > (thousandths * q) \div 1000

\* statistics.variance(xs), the sample variance, of two or more fractions
variance(xs) ==
    LET n == Len(xs)
        L == SeqLCM([i \in DOMAIN xs |-> xs[i][2]])
        A == [i \in DOMAIN xs |-> xs[i][1] * (L \div xs[i][2])]
        sum == SeqSum(A)
        squares == SeqSum([i \in DOMAIN A |-> A[i] * A[i]])
    IN  Frac(n * squares - sum * sum, n * (n - 1) * L * L)

\* list comprehension "[x for x in s if keep[x]]"
RECURSIVE Filter(_, _)
Filter(s, keep) ==
    IF s = <<>> THEN <<>>
    ELSE (IF keep[Head(s)] THEN <<Head(s)>> ELSE <<>>) \o Filter(Tail(s), keep)

\* sorted(members, key=lambda p: p.score, reverse=True): stable, so equal
\* scores keep the order they came in
RECURSIVE sorted_by_score(_, _)
sorted_by_score(people, members) ==
    IF members = <<>> THEN <<>>
    ELSE LET top == CHOOSE k \in DOMAIN members :
                        /\ \A j \in DOMAIN members :
                               people[members[j]].score <= people[members[k]].score
                        /\ \A j \in 1..(k - 1) :
                               people[members[j]].score < people[members[k]].score
         IN  <<members[top]>> \o sorted_by_score(people, RemoveAt(members, top))

\* models.py, Group
total_score(people, members) == SeqSum([k \in DOMAIN members |-> people[members[k]].score])

average_score(people, members) ==
    IF members = <<>> THEN <<0, 1>> ELSE Frac(total_score(people, members), Len(members))

advantage_count(people, members) ==
    Cardinality({k \in DOMAIN members : people[members[k]].has_advantage})

add_member(groups, gi, m) == [groups EXCEPT ![gi] = Append(@, m)]

\* list.remove(m): the first occurrence goes
remove_member(members, m) ==
    RemoveAt(members, CHOOSE k \in DOMAIN members :
                          members[k] = m /\ \A j \in 1..(k - 1) : members[j] # m)

\* "for group in groups: assigned.extend(group.members)"
RECURSIVE Flatten(_)
Flatten(groups) == IF groups = <<>> THEN <<>> ELSE Head(groups) \o Flatten(Tail(groups))

\* BalanceEngine.calculate_score_variance
calculate_score_variance(people, groups) ==
    LET filled == Filter([k \in DOMAIN groups |-> k], [k \in DOMAIN groups |-> groups[k] # <<>>])
        averages == [k \in DOMAIN filled |-> average_score(people, groups[filled[k]])]
    IN  IF Len(averages) <= 1 THEN <<0, 1>> ELSE variance(averages)

\* min(candidates, key=lambda g: len(g.members)): the first of the smallest
smallest_group(groups, candidates) ==
    candidates[CHOOSE k \in DOMAIN candidates :
                   /\ \A j \in DOMAIN candidates :
                          Len(groups[candidates[k]]) <= Len(groups[candidates[j]])
                   /\ \A j \in 1..(k - 1) :
                          Len(groups[candidates[j]]) > Len(groups[candidates[k]])]

\* BalanceEngine._calculate_variance_after_addition
calculate_variance_after_addition(people, groups, target_group, participant) ==
    LET new_average == Frac(total_score(people, groups[target_group]) + people[participant].score,
                            Len(groups[target_group]) + 1)
        counted == Filter([k \in DOMAIN groups |-> k],
                          [k \in DOMAIN groups |-> k = target_group \/ groups[k] # <<>>])
        averages == [k \in DOMAIN counted |->
                        IF counted[k] = target_group THEN new_average
                        ELSE average_score(people, groups[counted[k]])]
        group_sizes == [k \in DOMAIN groups |->
                           <<Len(groups[k]) + (IF k = target_group THEN 1 ELSE 0), 1>>]
        size_variance == IF Len(group_sizes) > 1 THEN variance(group_sizes) ELSE <<0, 1>>
    IN  IF Len(averages) <= 1 THEN Frac(size_variance[1] * 100, size_variance[2])
        ELSE variance(averages)

\* variance_score + len(group.members) * 0.1
composite_score(people, groups, group, participant) ==
    FracAdd(calculate_variance_after_addition(people, groups, group, participant),
            Frac(Len(groups[group]), 10))

\* the position of the first of the lowest fractions: what a scan that keeps a
\* candidate only "if score < best_score" ends with, and what min(..., key=...)
\* returns
first_lowest(fracs) ==
    CHOOSE k \in DOMAIN fracs :
        /\ \A j \in DOMAIN fracs : ~FracLess(fracs[j], fracs[k])
        /\ \A j \in 1..(k - 1) : FracLess(fracs[k], fracs[j])

\* BalanceEngine._find_best_group_for_participant: the index of the group
find_best_group_for_participant(people, groups, participant, target_size) ==
    LET all == [k \in DOMAIN groups |-> k]
        below == Filter(all, [k \in DOMAIN groups |-> Len(groups[k]) < target_size])
        available_groups == IF below = <<>> THEN all ELSE below
        total_remaining == Len(Flatten(groups)) + 1
    IN  IF Len(groups) >= total_remaining THEN smallest_group(groups, available_groups)
        ELSE available_groups[first_lowest(
                 [k \in DOMAIN available_groups |->
                     composite_score(people, groups, available_groups[k], participant)])]

\* BalanceEngine._greedy_assignment, from its loop on
RECURSIVE greedy_loop(_, _, _, _)
greedy_loop(people, todo, groups, target_size) ==
    IF todo = <<>> THEN groups
    ELSE greedy_loop(people, Tail(todo),
                     add_member(groups,
                                find_best_group_for_participant(people, groups, Head(todo), target_size),
                                Head(todo)),
                     target_size)

greedy_assignment(people, todo, groups) ==
    greedy_loop(people, todo, groups,
                FloorDiv(Len(todo) + Len(Flatten(groups)), Len(groups)))

\* BalanceEngine._round_robin_assignment: "group_index = i % len(groups)"
RECURSIVE round_robin_from(_, _, _)
round_robin_from(todo, groups, i) ==
    IF i >= Len(todo) THEN groups
    ELSE round_robin_from(todo, add_member(groups, PyMod(i, Len(groups)) + 1, todo[i + 1]), i + 1)

round_robin_assignment(todo, groups) == round_robin_from(todo, groups, 0)

\* statistics.variance([avg1, avg2]) after swapping p1 of group1 with p2 of group2
swapped_variance(people, group1, group2, p1, p2) ==
    variance(<< Frac(total_score(people, group1) - people[p1].score + people[p2].score, Len(group1)),
                Frac(total_score(people, group2) - people[p2].score + people[p1].score, Len(group2)) >>)

\* the double loop of _try_beneficial_swap over (p1, p2), pair number k onwards:
\* best is <<best_variance, best_swap>>, best_swap <<>> while None
RECURSIVE best_swap_from(_, _, _, _, _)
best_swap_from(people, group1, group2, k, best) ==
    IF k >= Len(group1) * Len(group2) THEN best
    ELSE LET p1 == group1[(k \div Len(group2)) + 1]
             p2 == group2[(k % Len(group2)) + 1]
             new_variance == swapped_variance(people, group1, group2, p1, p2)
         IN  best_swap_from(people, group1, group2, k + 1,
                 IF people[p1].has_advantage \/ people[p2].has_advantage THEN best
                 ELSE IF FracLessBy(new_variance, best[1], 1) THEN <<new_variance, <<p1, p2>>>>
                 ELSE best)

\* "if best_swap:" and the four lines that perform it
perform_swap(groups, i, j, best_swap) ==
    IF best_swap = <<>> THEN groups
    ELSE [groups EXCEPT ![i] = Append(remove_member(@, best_swap[1]), best_swap[2]),
                        ![j] = Append(remove_member(@, best_swap[2]), best_swap[1])]

\* BalanceEngine._try_beneficial_swap on groups i and j: the groups afterwards
\* (unchanged when it returns False)
try_beneficial_swap(people, groups, i, j) ==
    IF groups[i] = <<>> \/ groups[j] = <<>> THEN groups
    ELSE perform_swap(groups, i, j,
             best_swap_from(people, groups[i], groups[j], 0,
                 << variance(<<average_score(people, groups[i]),
                               average_score(people, groups[j])>>), <<>> >>)[2])

\* the pairs "for i in range(n): for j in range(i + 1, n)" in loop order
RECURSIVE pairs_from(_, _, _)
pairs_from(n, i, j) ==
    IF i >= n THEN <<>>
    ELSE IF j > n THEN pairs_from(n, i + 1, i + 2)
    ELSE << <<i, j>> >> \o pairs_from(n, i, j + 1)

pair_list(n) == pairs_from(n, 1, 2)

\* of the outcomes of one call per pair, the first that changed the groups
\* ("break  # Start over after any improvement"); the groups as they were if
\* none did
first_changed(outcomes, groups) ==
    IF \A k \in DOMAIN outcomes : outcomes[k] = groups THEN groups
    ELSE outcomes[CHOOSE k \in DOMAIN outcomes :
                      outcomes[k] # groups /\ \A j \in 1..(k - 1) : outcomes[j] = groups]

\* one pass of the while loop of _local_optimization
optimization_pass(people, groups, pairs) ==
    first_changed([k \in DOMAIN pairs |->
                      try_beneficial_swap(people, groups, pairs[k][1], pairs[k][2])],
                  groups)

\* BalanceEngine._local_optimization: "while improved and iteration < max_iterations"
RECURSIVE optimization_loop(_, _, _, _)
optimization_loop(people, before, groups, iteration) ==
    IF groups = before \/ iteration >= 50 THEN groups
    ELSE optimization_loop(people, groups,
                           optimization_pass(people, groups, pair_list(Len(groups))),
                           iteration + 1)

local_optimization(people, groups) ==
    optimization_loop(people, groups, optimization_pass(people, groups, pair_list(Len(groups))), 1)

\* min(approaches, key=lambda x: x[0]): the first of the lowest variances
best_approach(people, approaches) ==
    approaches[first_lowest([k \in DOMAIN approaches |->
                                calculate_score_variance(people, approaches[k])])]

\* BalanceEngine.balance_scores
balance_scores(people, groups) ==
    LET assigned_names == {people[m].name : m \in Range(Flatten(groups))}
        remaining == Filter([k \in DOMAIN people |-> k],
                            [k \in DOMAIN people |-> people[k].name \notin assigned_names])
        remaining_sorted == sorted_by_score(people, remaining)
        \* groups_copy1, groups_copy2, groups_copy3 before _local_optimization
        assigned == << greedy_assignment(people, remaining_sorted, groups),
                       round_robin_assignment(remaining, groups),
                       round_robin_assignment(remaining_sorted, groups) >>
    IN  IF remaining = <<>> THEN groups
        ELSE best_approach(people, [k \in DOMAIN assigned |-> local_optimization(people, assigned[k])])

\* GroupResult(groups, score_variance, advantage_distribution)
GroupResult(people, groups) ==
    [groups |-> groups,
     score_variance |-> calculate_score_variance(people, groups),
     advantage_distribution |-> [k \in DOMAIN groups |-> advantage_count(people, groups[k])]]

\* GroupResult.is_valid
is_valid(people, result) ==
    /\ result.groups # <<>>
    /\ \A k \in DOMAIN result.groups : Len(result.groups[k]) # 0
    /\ [k \in DOMAIN result.groups |-> advantage_count(people, result.groups[k])]
           = result.advantage_distribution

\* GroupOptimizer._validate_advantage_distribution
validate_advantage_distribution(people, result) ==
    LET advantage_counts == [k \in DOMAIN result.groups |-> advantage_count(people, result.groups[k])]
    IN  advantage_counts = <<>>
        \/ \A a, b \in Range(advantage_counts) : a - b <= 1

\* GroupOptimizer._validate_result
validate_result(people, result, group_count) ==
    LET assigned_participants == Flatten(result.groups)
        assigned_names == [k \in DOMAIN assigned_participants |-> people[assigned_participants[k]].name]
        empty_groups == Cardinality({k \in DOMAIN result.groups : result.groups[k] = <<>>})
    IN  /\ result.groups # <<>>
        /\ Len(result.groups) = group_count
        /\ ~(empty_groups > 0 /\ Len(people) >= group_count)
        /\ Len(assigned_participants) = Len(people)
        /\ Cardinality(Range(assigned_names)) = Len(assigned_names)
        /\ {people[k].name : k \in DOMAIN people} = Range(assigned_names)
        /\ validate_advantage_distribution(people, result)
        /\ is_valid(people, result)

\* GroupOptimizer._try_beneficial_swap_between_groups: the same search as the
\* engine's, with convergence_threshold = 0.001
try_beneficial_swap_between_groups(people, groups, i, j) == try_beneficial_swap(people, groups, i, j)

\* "if self._try_beneficial_swap_between_groups(...): new_variance = ...;
\*  if new_variance < current_variance - self.convergence_threshold: return True"
improvement_found(people, groups, swapped, current_variance) ==
    /\ swapped # groups
    /\ FracLessBy(calculate_score_variance(people, swapped), current_variance, 1)

\* GroupOptimizer._try_cross_group_improvements, from pair number k on, the
\* groups being `swapped` after the pair before it: <<improved, groups>>
RECURSIVE cross_group_from(_, _, _, _, _, _)
cross_group_from(people, groups, swapped, current_variance, pairs, k) ==
    IF improvement_found(people, groups, swapped, current_variance) THEN <<TRUE, swapped>>
    ELSE IF k > Len(pairs) THEN <<FALSE, swapped>>
    ELSE cross_group_from(people, swapped,
             try_beneficial_swap_between_groups(people, swapped, pairs[k][1], pairs[k][2]),
             current_variance, pairs, k + 1)

try_cross_group_improvements(people, groups) ==
    cross_group_from(people, groups, groups, calculate_score_variance(people, groups),
                     pair_list(Len(groups)), 1)

\* GroupOptimizer._apply_final_optimizations: "for _ in range(3)", tried being
\* what the pass before returned and left
RECURSIVE final_passes(_, _, _)
final_passes(people, tried, pass) ==
    IF pass >= 3 \/ ~tried[1] THEN tried[2]
    ELSE final_passes(people, try_cross_group_improvements(people, tried[2]), pass + 1)

apply_final_optimizations(people, groups) ==
    final_passes(people, try_cross_group_improvements(people, groups), 1)

\* GroupOptimizer._enhance_result_quality
enhance_result_quality(people, result) ==
    GroupResult(people, apply_final_optimizations(people, result.groups))

\* "optimization_attempts = min(5, max(1, len(participants) // 10))"
optimization_attempts(people) == Min(5, Max(1, Len(people) \div 10))

--------------------------------------------------------------------------
(* One call into the package, step by step                                *)

\* Optional[GroupResult]
NoGroupResult == [is_none |-> TRUE]

SomeGroupResult(result) == [is_none |-> FALSE, value |-> result]

\* the tests and the application enter the package at these three places
Entries == {"GroupOptimizer.optimize_groups", "BalanceEngine.optimize_groups",
            "BalanceEngine.distribute_advantaged"}

\* distinct names
ParticipantNames == <<"ann", "bob", "cat", "dan", "eve">>

\* lists of Participants with distinct names
ParticipantLists ==
    UNION {{[k \in 1..n |-> Participant(ParticipantNames[k], f[k][1], f[k][2])] :
               f \in [1..n -> BalancerScores \X BOOLEAN]} : n \in 0..MaxParticipants}

\* "groups = [Group(id=i, members=[]) for i in range(group_count)]"
empty_groups(group_count) == [k \in 1..group_count |-> <<>>]

Call(entry, people, group_count) ==
    [pc |-> IF entry = "GroupOptimizer.optimize_groups" THEN "validate_inputs"
            ELSE IF entry = "BalanceEngine.optimize_groups" THEN "optimize_groups"
            ELSE "distribute_advantaged",
     entry |-> entry,
     participants |-> people,
     group_count |-> group_count,
     \* distribute_advantaged is handed the groups by its caller
     groups |-> IF entry = "BalanceEngine.distribute_advantaged"
                THEN empty_groups(group_count) ELSE <<>>,
     advantaged |-> <<>>,
     i |-> 0,
     group_index |-> 0,
     attempt |-> 0,
     result |-> NoGroupResult,
     best_result |-> NoGroupResult,
     raised |-> ""]

\* the first three checks of GroupOptimizer._validate_inputs and the checks of
\* BalanceEngine.optimize_groups: the exception they raise, "" for none
inputs_rejected_sometimes(people, group_count) ==
    IF people = <<>> \/ group_count <= 0 THEN "ValueError" ELSE ""

inputs_rejected(people, group_count) ==
    IF people = <<>> \/ group_count <= 0 \/ Len(people) < group_count THEN "ValueError" ELSE ""

\* "for i, participant in enumerate(participants)" of _validate_inputs: a score
\* is a number and a name is not blank for every Participant of the model
participant_data_rejected(people) ==
    IF \E k \in DOMAIN people : people[k].score \notin Int \/ people[k].name = ""
    THEN "ValueError" ELSE ""

\* "group_index = (group_index + 1) % group_count"
next_group_index_staying(group_index, group_count) == group_index

next_group_index(group_index, group_count) == PyMod(group_index + 1, group_count)

\* GroupOptimizer.optimize_groups, the end of one pass of "for attempt in range(...)"
\* and what follows the loop
AfterAttempt(b) ==
    IF b.attempt + 1 < optimization_attempts(b.participants)
        THEN [b EXCEPT !.pc = "optimize_groups", !.attempt = @ + 1]
    ELSE IF b.best_result.is_none
        THEN [b EXCEPT !.pc = "raised", !.raised = "RuntimeError"]
    ELSE [b EXCEPT !.pc = "enhance_result_quality"]

\* the return of distribute_advantaged
AfterDistribute(b) ==
    IF b.entry = "BalanceEngine.distribute_advantaged" THEN [b EXCEPT !.pc = "returned"]
    ELSE [b EXCEPT !.pc = "balance_scores"]

outside_balancer == <<participants, n_groups, duration, total_cores, pc, cores_constrained,
             cores_unconstrained, shared_ns, locks, stop_event, futures, final, ortools,
             annealing>>

\* GroupOptimizer.optimize_groups, lines 47-54
ValidateInputs ==
    /\ balancer.pc = "validate_inputs"
    /\ LET rejected == inputs_rejected(balancer.participants, balancer.group_count)
           data == participant_data_rejected(balancer.participants)
       IN  balancer' = IF rejected # "" THEN [balancer EXCEPT !.pc = "raised", !.raised = rejected]
                       ELSE IF data # "" THEN [balancer EXCEPT !.pc = "raised", !.raised = data]
                       ELSE [balancer EXCEPT !.pc = "optimize_groups"]
    /\ UNCHANGED outside_balancer

\* BalanceEngine.optimize_groups, lines 27-37; inside GroupOptimizer's try, an
\* exception ends the attempt
CreateGroups ==
    /\ balancer.pc = "optimize_groups"
    /\ LET rejected == inputs_rejected(balancer.participants, balancer.group_count)
       IN  balancer' =
               IF rejected = ""
                   THEN [balancer EXCEPT !.pc = "distribute_advantaged",
                                         !.groups = empty_groups(balancer.group_count)]
               ELSE IF balancer.entry = "BalanceEngine.optimize_groups"
                   THEN [balancer EXCEPT !.pc = "raised", !.raised = rejected]
               ELSE AfterAttempt(balancer)
    /\ UNCHANGED outside_balancer

\* BalanceEngine.distribute_advantaged, lines 64-77
DistributeStart ==
    /\ balancer.pc = "distribute_advantaged"
    /\ LET people == balancer.participants
           advantaged == sorted_by_score(people,
                             Filter([k \in DOMAIN people |-> k],
                                    [k \in DOMAIN people |-> people[k].has_advantage]))
       IN  balancer' = IF advantaged = <<>> THEN AfterDistribute(balancer)
                       ELSE [balancer EXCEPT !.pc = "distribute_loop", !.advantaged = advantaged,
                                             !.i = 0, !.group_index = 0]
    /\ UNCHANGED outside_balancer

\* BalanceEngine.distribute_advantaged, one pass of the loop of lines 78-94
DistributeStep ==
    /\ balancer.pc = "distribute_loop"
    /\ LET people == balancer.participants
           group_count == Len(balancer.groups)
           base_count == Len(balancer.advantaged) \div group_count
           extra_count == Len(balancer.advantaged) % group_count
           participant == balancer.advantaged[balancer.i + 1]
           target_for_group == base_count + (IF balancer.group_index < extra_count THEN 1 ELSE 0)
           group_index == IF advantage_count(people, balancer.groups[balancer.group_index + 1])
                                 >= target_for_group
                          THEN next_group_index(balancer.group_index, group_count)
                          ELSE balancer.group_index
           placed == [balancer EXCEPT !.groups = add_member(@, group_index + 1, participant),
                                      !.group_index = next_group_index(group_index, group_count),
                                      !.i = @ + 1]
       IN  balancer' = IF placed.i >= Len(placed.advantaged) THEN AfterDistribute(placed)
                       ELSE placed
    /\ UNCHANGED outside_balancer

\* b after balance_scores has left `groups` behind: lines 45-53
Balanced(b, groups) ==
    [b EXCEPT !.groups = groups,
              !.result = SomeGroupResult(GroupResult(b.participants, groups)),
              !.pc = IF b.entry = "BalanceEngine.optimize_groups"
                     THEN "returned" ELSE "validate_result"]

\* BalanceEngine.optimize_groups, lines 42-53
BalanceScores ==
    /\ balancer.pc = "balance_scores"
    /\ balancer' = Balanced(balancer, balance_scores(balancer.participants, balancer.groups))
    /\ UNCHANGED outside_balancer

\* GroupOptimizer.optimize_groups, lines 61-78.  Every attempt computes the same
\* result, so "quality_score < best_quality_score" holds for the first valid
\* one only (best_quality_score starts at infinity)
ValidateResult ==
    /\ balancer.pc = "validate_result"
    /\ LET valid == validate_result(balancer.participants, balancer.result.value,
                                    balancer.group_count)
           kept == IF valid /\ balancer.best_result.is_none
                   THEN [balancer EXCEPT !.best_result = balancer.result]
                   ELSE balancer
       IN  balancer' = AfterAttempt(kept)
    /\ UNCHANGED outside_balancer

\* GroupOptimizer.optimize_groups, lines 80-83
EnhanceResultQuality ==
    /\ balancer.pc = "enhance_result_quality"
    /\ balancer' = [balancer EXCEPT
                       !.result = SomeGroupResult(enhance_result_quality(balancer.participants,
                                                                         balancer.best_result.value)),
                       !.pc = "returned"]
    /\ UNCHANGED outside_balancer

InitBalancer ==
    /\ participants = <<>>
    /\ n_groups = 1
    /\ duration = 0
    /\ total_cores = 1
    /\ cores_constrained = CoresConstrained(total_cores)
    /\ cores_unconstrained = CoresUnconstrained(total_cores)
    /\ shared_ns = InitialNamespace
    /\ locks = [lock_a |-> 0, lock_b |-> 0]
    /\ stop_event = FALSE
    /\ futures = <<>>
    /\ pc = "not_called"
    /\ final = NoResult
    /\ ortools = NotCalled
    /\ annealing = NotCalled
    /\ \E entry \in Entries, people \in ParticipantLists, group_count \in GroupCounts :
           /\ entry = "BalanceEngine.distribute_advantaged" => group_count >= 1
           /\ balancer = Call(entry, people, group_count)

NextBalancer ==
    \/ ValidateInputs
    \/ CreateGroups
    \/ DistributeStart
    \/ DistributeStep
    \/ BalanceScores
    \/ ValidateResult
    \/ EnhanceResultQuality

SpecBalancer == InitBalancer /\ [][NextBalancer]_vars

--------------------------------------------------------------------------
(* Claims about the group_balancer package (under SpecBalancer)           *)

\* the advantaged participants of the call, as members
Advantaged ==
    {k \in DOMAIN balancer.participants : balancer.participants[k].has_advantage}

\* how often member m stands in the groups
Placements(groups, m) ==
    Cardinality({k \in DOMAIN Flatten(groups) : Flatten(groups)[k] = m})

\* distribute_advantaged has returned and nothing has touched the groups since
DistributionDone ==
    \/ balancer.pc = "balance_scores"
    \/ balancer.pc = "returned" /\ balancer.entry = "BalanceEngine.distribute_advantaged"

\* C17: with A >= 1 advantaged participants and G >= 2 groups, when
\* distribute_advantaged returns every advantaged participant stands in
\* exactly one group, no group holds more than ceil(A/G) of them, and the
\* advantaged counts of any two groups differ by at most 1.
C17_AdvantagedSpreadEvenly ==
    (DistributionDone /\ Cardinality(Advantaged) >= 1 /\ Len(balancer.groups) >= 2) =>
        LET G == Len(balancer.groups)
            A == Cardinality(Advantaged)
            count(k) == advantage_count(balancer.participants, balancer.groups[k])
        IN  /\ \A m \in Advantaged : Placements(balancer.groups, m) = 1
            /\ \A k \in 1..G : count(k) <= (A + G - 1) \div G
            /\ \A j, k \in 1..G : count(j) - count(k) <= 1

\* C17 witness: three advantaged participants were spread over two groups
C17_UnevenShareSpread ==
    /\ DistributionDone
    /\ Cardinality(Advantaged) = 3
    /\ Len(balancer.groups) = 2
    /\ \E k \in 1..2 : advantage_count(balancer.participants, balancer.groups[k]) = 2

\* the call is GroupOptimizer.optimize_groups with 1 <= group_count <= len(participants)
OptimizerInputValid ==
    /\ balancer.entry = "GroupOptimizer.optimize_groups"
    /\ 1 <= balancer.group_count
    /\ balancer.group_count <= Len(balancer.participants)

\* C18: for 1 <= group_count <= len(participants) and distinct names,
\* GroupOptimizer.optimize_groups does not raise, and what it returns has
\* exactly group_count groups, none of them empty, with every participant in
\* exactly one of them.
C18_OptimizerReturnsFullGroups ==
    OptimizerInputValid =>
        /\ balancer.pc # "raised"
        /\ balancer.pc = "returned" =>
               LET groups == balancer.result.value.groups
               IN  /\ Len(groups) = balancer.group_count
                   /\ \A k \in DOMAIN groups : groups[k] # <<>>
                   /\ \A m \in DOMAIN balancer.participants : Placements(groups, m) = 1

\* the call is GroupOptimizer.optimize_groups with an empty list, a group
\* count below 1, or more groups than participants
OptimizerInputInvalid ==
    /\ balancer.entry = "GroupOptimizer.optimize_groups"
    /\ \/ balancer.participants = <<>>
       \/ balancer.group_count <= 0
       \/ balancer.group_count > Len(balancer.participants)

\* C19: GroupOptimizer.optimize_groups, given an empty participant list, a
\* group_count <= 0 or a group_count above the number of participants, goes
\* nowhere but to a ValueError, and no group exists by then, so no participant
\* was assigned to any.
C19_InvalidInputRaisesValueError ==
    OptimizerInputInvalid =>
        /\ balancer.pc \in {"validate_inputs", "raised"}
        /\ balancer.pc = "raised" => balancer.raised = "ValueError"
        /\ balancer.groups = <<>>
        /\ balancer.result.is_none

\* C19 witness: more groups than participants were asked for, and it raised
C19_TooManyGroupsRaised ==
    /\ OptimizerInputInvalid
    /\ balancer.participants # <<>>
    /\ balancer.group_count > Len(balancer.participants)
    /\ balancer.pc = "raised"
    /\ balancer.raised = "ValueError"

--------------------------------------------------------------------------
(* modules/solver.py: solve_with_ortools.  The CP-SAT solver is a library: *)
(* of a model it returns any outcome its contract allows, an optimal or    *)
(* (when the time limit ends the search) a merely feasible assignment of   *)
(* the constraints the code has added, or none.  A participant is a record *)
(* [Name, Score] as in the annealing engine, its Score a whole number.     *)

\* "SCALE = 100000"
SCALE == 100000

\* the lists handed to the solver
SolverRosters ==
    UNION {[1..n -> {Person(<<"a">>, 1), Person(<<"b">>, 2), Person(<<"c", "*">>, 2)}] :
               n \in 0..MaxParticipants}

SolverCall(people, num_groups, respect_stars) ==
    [pc |-> "data_preparation",
     participants |-> people,
     num_groups |-> num_groups,
     respect_stars |-> respect_stars,
     scores |-> <<>>,
     stars |-> <<>>,
     group_sizes_map |-> <<>>,
     status |-> "",
     x |-> <<>>,
     result_groups |-> <<>>,
     success |-> FALSE,
     raised |-> ""]

\* the groups g of "for g in range(num_groups)"
GroupRange(num_groups) == 0..(num_groups - 1)

\* the values of x[(i, g)] that satisfy constraint A: person i + 1 |-> its group g
Assignments(num_people, num_groups) == [1..num_people -> GroupRange(num_groups)]

\* sum(x[(i, g)] for i in range(num_people))
GroupSize(x, g) == Cardinality({i \in DOMAIN x : x[i] = g})

\* constraints B and C, lines 101-109
Feasible(s, x) ==
    /\ \A g \in GroupRange(s.num_groups) : GroupSize(x, g) = s.group_sizes_map[g + 1]
    /\ (s.respect_stars /\ s.stars # <<>>) =>
           \A g \in GroupRange(s.num_groups) :
               Cardinality({k \in DOMAIN s.stars : x[s.stars[k] + 1] = g})
                   <= (Len(s.stars) + s.num_groups - 1) \div s.num_groups

\* the objective of lines 119-145: sum over g of |g_sum * num_people - total_score * size|
Objective(s, x) ==
    LET num_people == Len(s.participants)
        score_total == SeqSum(s.scores)
        g_sum(g) == SeqSum([i \in DOMAIN x |-> IF x[i] = g THEN s.scores[i] ELSE 0])
        abs_diffs == [k \in 1..Max(s.num_groups, 0) |->
                         Abs(g_sum(k - 1) * num_people - score_total * s.group_sizes_map[k])]
    IN  SeqSum(abs_diffs)

Solutions(s) == {x \in Assignments(Len(s.participants), s.num_groups) : Feasible(s, x)}

outside_ortools == <<participants, n_groups, duration, total_cores, pc, cores_constrained,
                     cores_unconstrained, shared_ns, locks, stop_event, futures, final, balancer,
                     annealing>>

\* lines 49-67
DataPreparation ==
    /\ ortools.pc = "data_preparation"
    /\ LET people == ortools.participants
       IN  ortools' = [ortools EXCEPT
               !.scores = [i \in DOMAIN people |-> people[i].Score * SCALE],
               !.stars = [k \in DOMAIN Filter([i \in DOMAIN people |-> i],
                                              [i \in DOMAIN people |-> IsStar(people[i])]) |->
                             Filter([i \in DOMAIN people |-> i],
                                    [i \in DOMAIN people |-> IsStar(people[i])])[k] - 1],
               !.pc = "group_size_calculation"]
    /\ UNCHANGED outside_ortools

\* lines 73-84: "base_size = num_people // num_groups" divides by num_groups
GroupSizeCalculation ==
    /\ ortools.pc = "group_size_calculation"
    /\ LET num_people == Len(ortools.participants)
           num_groups == ortools.num_groups
           base_size == FloorDiv(num_people, num_groups)
           remainder == PyMod(num_people, num_groups)
       IN  ortools' =
               IF num_groups = 0
                   THEN [ortools EXCEPT !.pc = "raised", !.raised = "ZeroDivisionError"]
               ELSE [ortools EXCEPT
                        !.group_sizes_map = [k \in 1..Max(num_groups, 0) |->
                                                IF k - 1 < remainder THEN base_size + 1
                                                ELSE base_size],
                        !.pc = "execution"]
    /\ UNCHANGED outside_ortools

\* lines 86-155, the search proved an assignment optimal
SolveOptimal ==
    /\ ortools.pc = "execution"
    /\ \E x \in Solutions(ortools) :
           /\ \A y \in Solutions(ortools) : Objective(ortools, x) <= Objective(ortools, y)
           /\ ortools' = [ortools EXCEPT !.status = "OPTIMAL", !.x = x,
                                         !.pc = "result_reconstruction"]
    /\ UNCHANGED outside_ortools

\* there are decision variables x[(i, g)] to search over
HasVariables(s) == Len(s.participants) > 0 /\ s.num_groups > 0

\* lines 86-155, max_time_in_seconds ended a search (there were variables to
\* search over) that had found an assignment
SolveFeasible ==
    /\ ortools.pc = "execution"
    /\ HasVariables(ortools)
    /\ \E x \in Solutions(ortools) :
           ortools' = [ortools EXCEPT !.status = "FEASIBLE", !.x = x,
                                      !.pc = "result_reconstruction"]
    /\ UNCHANGED outside_ortools

\* lines 86-155, max_time_in_seconds ended a search that had found none
SolveUnknown ==
    /\ ortools.pc = "execution"
    /\ HasVariables(ortools)
    /\ ortools' = [ortools EXCEPT !.status = "UNKNOWN", !.pc = "result_reconstruction"]
    /\ UNCHANGED outside_ortools

\* lines 86-155, no assignment satisfies the constraints
SolveInfeasible ==
    /\ ortools.pc = "execution"
    /\ Solutions(ortools) = {}
    /\ ortools' = [ortools EXCEPT !.status = "INFEASIBLE", !.pc = "result_reconstruction"]
    /\ UNCHANGED outside_ortools

\* one group of result_groups, lines 162-174
ResultGroup(s, g) ==
    LET members == Filter([i \in DOMAIN s.x |-> i], [i \in DOMAIN s.x |-> s.x[i] = g])
        current_sum == SeqSum([k \in DOMAIN members |-> s.participants[members[k]].Score])
    IN  [id |-> g + 1,
         members |-> members,
         current_sum |-> current_sum,
         avg |-> IF Len(members) > 0 THEN Frac(current_sum, Len(members)) ELSE <<0, 1>>]

\* lines 161-178
ResultReconstruction ==
    /\ ortools.pc = "result_reconstruction"
    /\ ortools' =
           IF ortools.status \in {"OPTIMAL", "FEASIBLE"}
               THEN [ortools EXCEPT
                        !.result_groups = [k \in 1..Max(ortools.num_groups, 0) |->
                                              ResultGroup(ortools, k - 1)],
                        !.success = TRUE,
                        !.pc = "returned"]
           ELSE [ortools EXCEPT !.result_groups = <<>>, !.success = FALSE, !.pc = "returned"]
    /\ UNCHANGED outside_ortools

InitOrtools ==
    /\ participants = <<>>
    /\ n_groups = 1
    /\ duration = 0
    /\ total_cores = 1
    /\ cores_constrained = CoresConstrained(total_cores)
    /\ cores_unconstrained = CoresUnconstrained(total_cores)
    /\ shared_ns = InitialNamespace
    /\ locks = [lock_a |-> 0, lock_b |-> 0]
    /\ stop_event = FALSE
    /\ futures = <<>>
    /\ pc = "not_called"
    /\ final = NoResult
    /\ balancer = NotCalled
    /\ annealing = NotCalled
    /\ \E people \in SolverRosters, num_groups \in GroupCounts, respect_stars \in BOOLEAN :
           ortools = SolverCall(people, num_groups, respect_stars)

NextOrtools ==
    \/ DataPreparation
    \/ GroupSizeCalculation
    \/ SolveOptimal
    \/ SolveFeasible
    \/ SolveUnknown
    \/ SolveInfeasible
    \/ ResultReconstruction

SpecOrtools == InitOrtools /\ [][NextOrtools]_vars

--------------------------------------------------------------------------
(* Claim about modules/solver.py (under SpecOrtools)                      *)

\* C20: solve_with_ortools goes nowhere but to a ValueError whenever
\* num_groups < 1 (zero participants and zero groups included), while zero
\* participants with num_groups = 1 never raise and return success with one
\* group that has no members.
C20_GroupCountBelowOneIsValueError ==
    /\ ortools.num_groups < 1 =>
           /\ ortools.pc \in {"data_preparation", "group_size_calculation", "raised"}
           /\ ortools.pc = "raised" => ortools.raised = "ValueError"
    /\ (ortools.participants = <<>> /\ ortools.num_groups = 1) =>
           /\ ortools.pc # "raised"
           /\ ortools.pc = "returned" =>
                  /\ ortools.success
                  /\ Len(ortools.result_groups) = 1
                  /\ ortools.result_groups[1].members = <<>>

--------------------------------------------------------------------------
(* Claims about one search iteration of run_simulated_annealing           *)
(* (under Spec)                                                           *)

\* The swaps a worker may try on its current grouping (lines 159-170)
SwapTrials(f) ==
    LET g == f.current_groups
    IN  {t \in [i : DOMAIN g, j : DOMAIN g, idx1 : 1..N, idx2 : 1..N] :
            /\ t.i # t.j
            /\ t.idx1 \in DOMAIN g[t.i].members
            /\ t.idx2 \in DOMAIN g[t.j].members
            /\ SwapPermitted(participants, g, t.i, t.j, t.idx1, t.idx2, f.respect_stars)}

\* The transfers a worker may try on its current grouping (lines 188-204)
TransferTrials(f) ==
    LET g == f.current_groups
    IN  {t \in [src : DOMAIN g, dst : DOMAIN g, idx : 1..N] :
            /\ t.src # t.dst
            /\ \E i, j \in DOMAIN g :
                  /\ i # j
                  /\ TransferPair(g, i, j, MinSize(f.groups), MaxSize(f.groups)) = <<t.src, t.dst>>
            /\ t.idx \in DOMAIN g[t.src].members
            /\ ~StarBlocked(participants, g, t.src, t.dst, t.idx, f.respect_stars)}

\* lines 172-180 and 206-214: the acceptance test can reject the trial
Rejectable(f, moved) ==
    LET curr_std == calculate_std_dev(participants, moved)
    IN  /\ ~Improves(curr_std, f.best_std)
        /\ TRUE \in RevertChoices(curr_std, f.best_std)

\* C21: a swap or a transfer that the acceptance test rejects leaves the
\* worker's current grouping as it was before the move: the two groups have
\* the same members list, current_sum and avg, and no other group differs.
C21_RejectedMoveLeavesGrouping ==
    \A w \in Workers :
        Iterating(w) =>
            LET f == futures[w]
                g == f.current_groups
            IN  /\ \A t \in SwapTrials(f) :
                      LET moved == SwapMembers(participants, g, t.i, t.j, t.idx1, t.idx2)
                      IN  Rejectable(f, moved) =>
                              SwapMembers(participants, moved, t.i, t.j, t.idx1, t.idx2) = g
                /\ \A t \in TransferTrials(f) :
                      LET moved == TransferMember(participants, g, t.src, t.dst, t.idx)
                      IN  Rejectable(f, moved) =>
                              RevertTransfer(participants, moved, t.src, t.dst) = g

--------------------------------------------------------------------------
(* modules/algorithms.py: run_simulated_annealing once more, one call     *)
(* alone, a statement a step, with the identities of its objects.         *)
(*                                                                        *)
(* A group is a dict object and its members a list object.                *)
(* annealing.dicts and annealing.lists map the addresses of the live      *)
(* objects to their contents; groups, best_groups and current_groups are  *)
(* lists of dict addresses.  A move changes a list in place, so every     *)
(* dict that refers to that list shows the change.                        *)
(*                                                                        *)
(* The temperature is kept by where it lies: "T_MAX" (1000.0 itself),     *)
(* "cooler" (T_MIN <= T < T_MAX) or "below" (T < T_MIN = 0.001).  With    *)
(* alpha = 0.9999, T_MAX * alpha = 999.9 is "cooler", and a "cooler" T    *)
(* times alpha is less than T: "cooler" still, or "below".                *)

AnnealingRosters == {Trio, Tied}

AnnealingGroupCounts == 2..MaxRacingGroups

Least(S) == CHOOSE x \in S : \A y \in S : x <= y

RECURSIVE FreshAddresses(_, _)
\* n addresses that no live object has, lowest first
FreshAddresses(used, n) ==
    IF n = 0 THEN <<>>
    ELSE LET x == Least((1..(Cardinality(used) + 1)) \ used)
         IN  <<x>> \o FreshAddresses(used \cup {x}, n - 1)

\* the group at dict address d, as a value
GroupAt(a, d) ==
    [id          |-> a.dicts[d].id,
     members     |-> a.lists[a.dicts[d].members],
     current_sum |-> a.dicts[d].current_sum,
     avg         |-> a.dicts[d].avg]

\* the grouping that a list of dict addresses stands for
Grouping(a, refs) == [k \in DOMAIN refs |-> GroupAt(a, refs[k])]

\* lines 11-18: recalculate_sums writes current_sum and avg into the dicts at ds
recalculate_sums_in_place(a, ds) ==
    [a EXCEPT !.dicts =
        [d \in DOMAIN a.dicts |->
            IF d \in ds
            THEN LET g == RecalcGroup(a.participants, GroupAt(a, d))
                 IN  [a.dicts[d] EXCEPT !.current_sum = g.current_sum, !.avg = g.avg]
            ELSE a.dicts[d]]]

\* copied_members without line 33: the new dict keeps the list of the old one
copied_members_shared(old, fresh) == old

\* line 33: new_g['members'] = g['members'][:], the list the new dict refers to
copied_members(old, fresh) == fresh

\* lines 29-35: the objects after deep_copy_groups(refs), and the list it returns
deep_copy_objects(a, refs) ==
    LET n  == Len(refs)
        nd == FreshAddresses(DOMAIN a.dicts, n)
        nl == FreshAddresses(DOMAIN a.lists, n)
        lists == [l \in DOMAIN a.lists \cup Range(nl) |->
                     IF l \in DOMAIN a.lists THEN a.lists[l]
                     ELSE LET k == CHOOSE k \in 1..n : nl[k] = l
                          IN  a.lists[a.dicts[refs[k]].members]]
        dicts == [d \in DOMAIN a.dicts \cup Range(nd) |->
                     IF d \in DOMAIN a.dicts THEN a.dicts[d]
                     ELSE LET k == CHOOSE k \in 1..n : nd[k] = d
                          IN  [a.dicts[refs[k]] EXCEPT !.members = copied_members(@, nl[k])]]
    IN  [objects |-> recalculate_sums_in_place([a EXCEPT !.dicts = dicts, !.lists = lists],
                                               Range(nd)),
         copy    |-> nd]

\* objects that no variable of the call reaches any more are gone
Collect(a) ==
    LET live == Range(a.groups) \cup Range(a.best_groups) \cup Range(a.current_groups)
        kept == {a.dicts[d].members : d \in live}
    IN  [a EXCEPT !.dicts = [d \in live |-> a.dicts[d]],
                  !.lists = [l \in kept |-> a.lists[l]]]

\* lines 110-123 with nobody else at the Namespace: the proxy pickles
\* local_groups, so the Namespace holds the grouping as a value
update_global_state(ns, local_groups, local_std, is_constrained) ==
    LET after_a == IF is_constrained /\ FloatLess(local_std, ns.best_a_score)
                   THEN [ns EXCEPT !.best_a_score = local_std,
                                   !.best_a_groups = Some(local_groups)]
                   ELSE ns
    IN  IF FloatLess(local_std, after_a.best_b_score)
        THEN [after_a EXCEPT !.best_b_score = local_std,
                             !.best_b_groups = Some(local_groups)]
        ELSE after_a

\* the call run_simulated_annealing(groups, respect_stars, ...): the
\* parameters were unpickled into objects of this process
AnnealingCall(people, start_g, respect_stars) ==
    [pc             |-> "called",
     participants   |-> people,
     respect_stars  |-> respect_stars,
     dicts          |-> [d \in DOMAIN start_g |->
                            [id |-> start_g[d].id, members |-> d,
                             current_sum |-> start_g[d].current_sum, avg |-> start_g[d].avg]],
     lists          |-> [l \in DOMAIN start_g |-> start_g[l].members],
     groups         |-> [k \in DOMAIN start_g |-> k],
     best_groups    |-> <<>>,
     current_groups |-> <<>>,
     best_std       |-> Literal(NO_AVGS_STD),
     curr_std       |-> Literal(NO_AVGS_STD),
     shared_ns      |-> InitialNamespace,
     T              |-> "T_MAX",
     move_type      |-> "",
     g1             |-> 0,
     g2             |-> 0,
     idx1           |-> 0,
     idx2           |-> 0,
     outcome        |-> Raised("")]

outside_annealing == <<participants, n_groups, duration, total_cores, pc, cores_constrained,
                       cores_unconstrained, shared_ns, locks, stop_event, futures, final,
                       balancer, ortools>>

\* lines 132-148
AnnealingSetup ==
    /\ annealing.pc = "called"
    /\ LET best    == deep_copy_objects(annealing, annealing.groups)
           a1      == [best.objects EXCEPT
                          !.best_groups = best.copy,
                          !.best_std = calculate_std_dev(annealing.participants,
                                                         Grouping(best.objects, best.copy))]
           a2      == [a1 EXCEPT !.shared_ns =
                          update_global_state(a1.shared_ns, Grouping(a1, a1.best_groups),
                                              a1.best_std, a1.respect_stars)]
           current == deep_copy_objects(a2, a2.groups)
       IN  annealing' = [current.objects EXCEPT !.current_groups = current.copy,
                                                !.T = "T_MAX",
                                                !.pc = "loop"]
    /\ UNCHANGED outside_annealing

\* lines 150-153 and 226: the budget is used up or the stop event is set
AnnealingReturn ==
    /\ annealing.pc = "loop"
    /\ annealing' = [annealing EXCEPT
           !.pc = "returned",
           !.outcome = Returned(<<Grouping(annealing, annealing.best_groups),
                                  annealing.best_std>>)]
    /\ UNCHANGED outside_annealing

\* lines 155-156: move_type and the two sampled groups
ChooseMove ==
    /\ annealing.pc = "loop"
    /\ \E move_type \in {"swap", "transfer"}, k1, k2 \in DOMAIN annealing.current_groups :
          /\ k1 # k2
          /\ annealing' = [annealing EXCEPT !.pc = move_type,
                                            !.move_type = move_type,
                                            !.g1 = annealing.current_groups[k1],
                                            !.g2 = annealing.current_groups[k2]]
    /\ UNCHANGED outside_annealing

\* the locals of one iteration (move_type, g1, g2, idx1, idx2, src, dst,
\* curr_std) are all assigned again before the next iteration reads them:
\* at the end of an iteration they are left out of the state
EndIteration(a) ==
    [a EXCEPT !.move_type = "", !.g1 = 0, !.g2 = 0, !.idx1 = 0, !.idx2 = 0,
              !.curr_std = Literal(NO_AVGS_STD)]

\* the sampled pair as a grouping of two
Sampled(a) == Grouping(a, <<a.g1, a.g2>>)

\* lines 160 and 167: "continue", back to the loop top
SwapContinue ==
    /\ annealing.pc = "swap"
    /\ LET g == Sampled(annealing)
       IN  \/ g[1].members = <<>>
           \/ g[2].members = <<>>
           \/ \E idx1 \in DOMAIN g[1].members, idx2 \in DOMAIN g[2].members :
                 ~SwapPermitted(annealing.participants, g, 1, 2, idx1, idx2,
                                annealing.respect_stars)
    /\ annealing' = [EndIteration(annealing) EXCEPT !.pc = "loop"]
    /\ UNCHANGED outside_annealing

\* lines 169-170 (and 182-183): the two list items change places, then
\* recalculate_sums([g1, g2])
swap_in_place(a) ==
    LET l1 == a.dicts[a.g1].members
        l2 == a.dicts[a.g2].members
    IN  recalculate_sums_in_place(
            [a EXCEPT !.lists = [a.lists EXCEPT ![l1][a.idx1] = a.lists[l2][a.idx2],
                                                ![l2][a.idx2] = a.lists[l1][a.idx1]]],
            {a.g1, a.g2})

\* lines 161-172
SwapMove ==
    /\ annealing.pc = "swap"
    /\ LET g == Sampled(annealing)
       IN  \E idx1 \in DOMAIN g[1].members, idx2 \in DOMAIN g[2].members :
              /\ SwapPermitted(annealing.participants, g, 1, 2, idx1, idx2,
                               annealing.respect_stars)
              /\ LET moved == swap_in_place([annealing EXCEPT !.idx1 = idx1, !.idx2 = idx2])
                 IN  annealing' = [moved EXCEPT
                         !.curr_std = calculate_std_dev(moved.participants,
                                                        Grouping(moved, moved.current_groups)),
                         !.pc = "judge"]
    /\ UNCHANGED outside_annealing

\* lines 189-191: the sampled pair as <<src, dst>>, or <<0, 0>>
SrcDst(a) ==
    LET sd == TransferPair(Sampled(a), 1, 2, MinSize(Grouping(a, a.groups)),
                           MaxSize(Grouping(a, a.groups)))
    IN  IF sd = <<1, 2>> THEN <<a.g1, a.g2>>
        ELSE IF sd = <<2, 1>> THEN <<a.g2, a.g1>>
        ELSE <<0, 0>>

\* lines 196-199 for the member at idx of src
Blocked(a, src, dst, idx) ==
    StarBlocked(a.participants, Grouping(a, <<src, dst>>), 1, 2, idx, a.respect_stars)

\* lines 189-201 when nothing is moved: on to line 222
TransferNothing ==
    /\ annealing.pc = "transfer"
    /\ LET sd == SrcDst(annealing)
       IN  \/ sd = <<0, 0>>
           \/ /\ sd # <<0, 0>>
              /\ \E idx \in DOMAIN GroupAt(annealing, sd[1]).members :
                    Blocked(annealing, sd[1], sd[2], idx)
    /\ annealing' = [annealing EXCEPT !.pc = "cool"]
    /\ UNCHANGED outside_annealing

\* lines 202-204: item = src['members'].pop(idx); dst['members'].append(item);
\* recalculate_sums([src, dst])
transfer_in_place(a, src, dst, idx) ==
    LET ls == a.dicts[src].members
        ld == a.dicts[dst].members
        popped == [a.lists EXCEPT ![ls] = RemoveAt(@, idx)]
    IN  recalculate_sums_in_place(
            [a EXCEPT !.lists = [popped EXCEPT ![ld] = Append(@, a.lists[ls][idx])]],
            {src, dst})

\* lines 194-206; g1 and g2 stand for src and dst from here on
TransferMove ==
    /\ annealing.pc = "transfer"
    /\ LET sd == SrcDst(annealing)
       IN  /\ sd # <<0, 0>>
           /\ \E idx \in DOMAIN GroupAt(annealing, sd[1]).members :
                 /\ ~Blocked(annealing, sd[1], sd[2], idx)
                 /\ LET moved == transfer_in_place(annealing, sd[1], sd[2], idx)
                    IN  annealing' = [moved EXCEPT
                            !.g1 = sd[1],
                            !.g2 = sd[2],
                            !.idx1 = idx,
                            !.curr_std = calculate_std_dev(moved.participants,
                                                           Grouping(moved, moved.current_groups)),
                            !.pc = "judge"]
    /\ UNCHANGED outside_annealing

\* lines 174-178 and 208-212
AcceptBest ==
    /\ annealing.pc = "judge"
    /\ Improves(annealing.curr_std, annealing.best_std)
    /\ LET best == deep_copy_objects(annealing, annealing.current_groups)
           a1   == Collect([best.objects EXCEPT !.best_groups = best.copy,
                                                !.best_std = annealing.curr_std])
       IN  annealing' = [a1 EXCEPT
               !.shared_ns = update_global_state(a1.shared_ns, Grouping(a1, a1.best_groups),
                                                 a1.best_std, a1.respect_stars),
               !.pc = "cool"]
    /\ UNCHANGED outside_annealing

\* lines 184-185 and 219-220: the worse (or equal) grouping is kept
KeepMove ==
    /\ annealing.pc = "judge"
    /\ ~Improves(annealing.curr_std, annealing.best_std)
    /\ FALSE \in RevertChoices(annealing.curr_std, annealing.best_std)
    /\ annealing' = [annealing EXCEPT !.pc = "cool"]
    /\ UNCHANGED outside_annealing

\* lines 216-218: item = dst['members'].pop(); src['members'].append(item);
\* recalculate_sums([src, dst])
revert_transfer_in_place(a, src, dst) ==
    LET ls == a.dicts[src].members
        ld == a.dicts[dst].members
        popped == [a.lists EXCEPT ![ld] = RemoveAt(@, Len(@))]
    IN  recalculate_sums_in_place(
            [a EXCEPT !.lists = [popped EXCEPT ![ls] = Append(@, a.lists[ld][Len(a.lists[ld])])]],
            {src, dst})

\* lines 181-183 and 215-218
RevertMove ==
    /\ annealing.pc = "judge"
    /\ ~Improves(annealing.curr_std, annealing.best_std)
    /\ TRUE \in RevertChoices(annealing.curr_std, annealing.best_std)
    /\ annealing' = [(IF annealing.move_type = "swap"
                      THEN swap_in_place(annealing)
                      ELSE revert_transfer_in_place(annealing, annealing.g1, annealing.g2))
                     EXCEPT !.pc = "cool"]
    /\ UNCHANGED outside_annealing

\* line 222, T *= alpha: where the product lies
Cooled(T) == IF T = "T_MAX" THEN {"cooler"} ELSE {"cooler", "below"}

\* line 222
Cool ==
    /\ annealing.pc = "cool"
    /\ \E T \in Cooled(annealing.T) :
          annealing' = [EndIteration(annealing) EXCEPT !.T = T, !.pc = "floor"]
    /\ UNCHANGED outside_annealing

\* CheckFloor without line 224: the temperature stays where it fell
CheckFloor_without_reset ==
    /\ annealing.pc = "floor"
    /\ annealing' = [annealing EXCEPT !.pc = "loop"]
    /\ UNCHANGED outside_annealing

\* lines 223-224: "if T < T_MIN: T = T_MAX"
CheckFloor ==
    /\ annealing.pc = "floor"
    /\ annealing' = [annealing EXCEPT !.T = IF @ = "below" THEN "T_MAX" ELSE @,
                                      !.pc = "loop"]
    /\ UNCHANGED outside_annealing

InitAnnealing ==
    /\ participants = <<>>
    /\ n_groups = 1
    /\ duration = 0
    /\ total_cores = 1
    /\ cores_constrained = CoresConstrained(total_cores)
    /\ cores_unconstrained = CoresUnconstrained(total_cores)
    /\ shared_ns = InitialNamespace
    /\ locks = [lock_a |-> 0, lock_b |-> 0]
    /\ stop_event = FALSE
    /\ futures = <<>>
    /\ pc = "not_called"
    /\ final = NoResult
    /\ balancer = NotCalled
    /\ ortools = NotCalled
    /\ \E people \in AnnealingRosters, num_groups \in AnnealingGroupCounts,
          respect_stars \in BOOLEAN :
          \E start \in generate_random_state(people, num_groups, respect_stars) :
             /\ start.raised = ""
             /\ annealing = AnnealingCall(people, start.value, respect_stars)

NextAnnealing ==
    \/ AnnealingSetup
    \/ AnnealingReturn
    \/ ChooseMove
    \/ SwapContinue
    \/ SwapMove
    \/ TransferNothing
    \/ TransferMove
    \/ AcceptBest
    \/ KeepMove
    \/ RevertMove
    \/ Cool
    \/ CheckFloor

SpecAnnealing == InitAnnealing /\ [][NextAnnealing]_vars

--------------------------------------------------------------------------
(* Claims about one call of run_simulated_annealing (under SpecAnnealing) *)

--------------------------------------------------------------------------
(* Claims about the shared records and the coordinator (under Spec)       *)

\* every submit of lines 56-65 has been made
AllSubmitted == pc \notin {"submit_constrained", "submit_unconstrained", "raised"}

\* the workers whose call returned a pair (best_groups, best_std)
ReturnedWorkers(ws) == {w \in ws : futures[w].pc = "returned"}

ReturnedStd(w) == futures[w].outcome.value[2]

\* score is the least best_std returned by the workers in ws
IsLeastReturned(score, ws) ==
    /\ \E w \in ReturnedWorkers(ws) : FloatEq(score, ReturnedStd(w))
    /\ \A w \in ReturnedWorkers(ws) : ~FloatLess(ReturnedStd(w), score)

\* C23: once every worker has finished, best_a_score is the least best_std
\* returned by the constrained workers and best_b_score the least best_std
\* returned by all workers.
C23_SharedScoresAreLeastReturned ==
    (AllSubmitted /\ AllDone) =>
        /\ ReturnedWorkers(Constrained) # {} =>
               IsLeastReturned(shared_ns.best_a_score, Constrained)
        /\ ReturnedWorkers(Workers) # {} =>
               IsLeastReturned(shared_ns.best_b_score, Workers)


\* C24: after cancellation was requested (stop_event set by lines 95-98) the
\* coordinator can go on to read the two shared records although some worker
\* is still running: leaving the executor block does not wait for it.
C24_HarvestDoesNotWaitForWorkers ==
    (pc = "shutdown" /\ stop_event /\ ~AllDone) => ENABLED ExecutorShutdown

--------------------------------------------------------------------------
(* The same engine without cancellation and with fair scheduling: the     *)
(* coordinator and every worker process keep taking steps, and the clock  *)
(* advances, so a worker that comes to its loop top again and again finds *)
(* its budget used up at some time                                        *)

\* the statements of solve_both_scenarios_parallel when nobody presses Ctrl+C
CoordinatorStep ==
    \/ SubmitConstrained
    \/ SubmitUnconstrained
    \/ MonitorAllDone
    \/ MonitorTimeLimit
    \/ ExecutorShutdown
    \/ RetrieveConstrained
    \/ RetrieveUnconstrained

\* every worker there can be
WorkerIds == UNION {1..(CoresConstrained(c) + CoresUnconstrained(c)) : c \in CoreCounts}

\* two processes, a constrained and an unconstrained worker with the lock of
\* record B between them, search the tied roster in one group (random.sample
\* fails in the loop) or in two, with a budget that lets them iterate
InitFair ==
    /\ Init
    /\ participants = Tied
    /\ n_groups \in {1, 2}
    /\ duration > 0
    /\ total_cores = 2

\* Next without KeyboardInterrupt and LoopStop
NextFair ==
    \/ SubmitConstrained
    \/ SubmitUnconstrained
    \/ MonitorAllDone
    \/ MonitorTimeLimit
    \/ ExecutorShutdown
    \/ RetrieveConstrained
    \/ RetrieveUnconstrained
    \/ \E w \in Workers : WorkerStart(w)
    \/ \E w \in Workers : UpdateCheck(w)
    \/ \E w \in Workers : UpdateLock(w)
    \/ \E w \in Workers : UpdateCompareAndSet(w)
    \/ \E w \in Workers : UpdateStore(w)
    \/ \E w \in Workers : WorkerSetup(w)
    \/ \E w \in Workers : LoopTimeout(w)
    \/ \E w \in Workers : SampleFails(w)
    \/ \E w \in Workers : SwapSkipped(w)
    \/ \E w \in Workers : Swap(w)
    \/ \E w \in Workers : TransferSkipped(w)
    \/ \E w \in Workers : Transfer(w)

\* the statements of worker w outside the loop body: whenever the process
\* can take its next one (for UpdateLock: the lock is free) it does
Straight(w) ==
    \/ WorkerStart(w)
    \/ UpdateCheck(w)
    \/ UpdateLock(w)
    \/ UpdateCompareAndSet(w)
    \/ UpdateStore(w)
    \/ WorkerSetup(w)

\* every step of the coordinator changes pc, every step of a worker its record
positions == <<pc, futures>>

\* nothing is assumed about the iterations of the loop except that the
\* clock advances: a worker that is at its loop top again and again reads,
\* at some time, an elapsed time that is not below the budget
Fairness ==
    /\ WF_positions(CoordinatorStep)
    /\ \A w \in WorkerIds : WF_positions(w \in Workers /\ Straight(w))
    /\ \A w \in WorkerIds : SF_positions(w \in Workers /\ LoopTimeout(w))

SpecFair == InitFair /\ [][NextFair]_vars /\ Fairness

--------------------------------------------------------------------------
(* Claims about termination and the locks (under SpecFair)                *)

\* C25: without cancellation and with an advancing clock every worker leaves
\* its search loop, the monitor loop ends, and solve_both_scenarios_parallel
\* returns: at some time all workers are done and the call has returned.
C25_EventuallyReturns == <>(pc = "returned" /\ AllDone)

\* the call has returned after a worker searched and left its loop with a
\* grouping other than the one it started from
C25_ReturnedAfterSearch ==
    /\ pc = "returned"
    /\ duration > 0
    /\ \E w \in Workers :
          /\ futures[w].pc = "returned"
          /\ futures[w].outcome.value[1] # futures[w].groups

--------------------------------------------------------------------------
(* Claim about which groups are the larger ones                           *)

\* group number k (from 1) of num_groups groups for total participants is
\* one of the first total % num_groups groups, which the claim gives one
\* member more than total // num_groups
SizeByIndex(total, num_groups, k) ==
    FloorDiv(total, num_groups) + (IF k <= total - num_groups * FloorDiv(total, num_groups) THEN 1 ELSE 0)

SizesByIndex(groups) ==
    \A k \in DOMAIN groups :
        Len(groups[k].members) = SizeByIndex(Len(participants), Len(groups), k)

\* C26: every grouping the generator built for N = q*G + r has its q+1
\* member groups at the first r indices and q members in the others, and
\* the grouping a worker searches keeps these sizes at these indices.
C26_LargerGroupsComeFirst ==
    \A w \in Workers :
        /\ SizesByIndex(futures[w].groups)
        /\ futures[w].pc = "loop" => SizesByIndex(futures[w].current_groups)

--------------------------------------------------------------------------
(* Claims about the order of the moves and the temperature (under         *)
(* SpecAnnealing)                                                         *)

\* C27: every iteration begins with a swap attempt, and a transfer is
\* attempted only in an iteration whose swap attempt came first (and did not
\* improve the current grouping): the step that begins an iteration leads to
\* the swap branch, and the transfer branch is entered from a swap attempt.
C27_SwapFirstThenTransfer ==
    [][/\ (annealing.pc = "loop" /\ annealing'.pc \in {"swap", "transfer"})
            => annealing'.pc = "swap"
       /\ (annealing.pc # "transfer" /\ annealing'.pc = "transfer")
            => (annealing.move_type = "swap" /\ annealing.pc \in {"swap", "judge"})]_vars

\* C28: at the end of every iteration that reaches line 222 the temperature
\* lies between T_MIN and T_MAX: wherever the call stands, except between
\* the multiplication (line 222) and the check of the floor (lines 223-224)
\* of one iteration, T is T_MAX or between T_MIN and T_MAX.
C28_TemperatureWithinRange ==
    annealing.pc \notin {"not_called", "floor"} => annealing.T \in {"T_MAX", "cooler"}

\* the call is at its loop top with T = T_MAX and a current grouping other
\* than the one it was called with: a move was kept, so line 222 has made T
\* smaller than T_MAX, and lines 223-224 have set it to T_MAX again
C28_ResetAfterFalling ==
    /\ annealing.pc = "loop"
    /\ annealing.T = "T_MAX"
    /\ Grouping(annealing, annealing.current_groups) # Grouping(annealing, annealing.groups)

--------------------------------------------------------------------------
(* Claim about the harvested pairs (under Spec)                           *)

\* score is the standard deviation of the group averages of groups
MatchingPair(groups, score) == FloatEq(score, calculate_std_dev(participants, groups))

\* C29: the (groups, score) pair harvested for each variant is a matching
\* pair: what solve_both_scenarios_parallel returns as score_c is the
\* standard deviation of the group averages of final_c, and score_u that of
\* final_u (for 1 <= G <= N).
C29_HarvestedPairsMatch ==
    (ValidInput /\ pc = "returned") =>
        /\ MatchingPair(final.final_c.groups, final.score_c)
        /\ MatchingPair(final.final_u.groups, final.score_u)

--------------------------------------------------------------------------
(* Claim about the locks (under SpecFair)                                 *)

\* worker w is inside update_global_state
Publishing(w) == w \in Workers /\ futures[w].pc \in {"check", "lock", "compare", "store"}

\* the locks worker w holds
Held(w) == {l \in DOMAIN locks : locks[l] = w}

\* C30: no worker ever holds both locks (a worker that asks for a lock holds
\* none), and every call of update_global_state that starts comes to its end,
\* whatever the other workers do: again and again, every worker is outside
\* update_global_state.
C30_PublishesComplete ==
    /\ [](\A w \in Workers :
             /\ Cardinality(Held(w)) <= 1
             /\ futures[w].pc \in {"check", "lock"} => Held(w) = {})
    /\ \A w \in WorkerIds : []<>~Publishing(w)

\* the constrained worker, done with record A, waits for the lock of record B
\* while the unconstrained worker holds it
C30_WaitsForHeldLock ==
    \E v, w \in Workers :
        /\ futures[v].respect_stars
        /\ futures[v].pc = "lock"
        /\ futures[v].slot = "b"
        /\ ~futures[w].respect_stars
        /\ locks.lock_b = w

=============================================================================
